---- MODULE Spec2Model ----
(***************************************************************************)
(* Request-observation pipeline of llm-proxy: the response capture         *)
(* (responseCapture.Write), the post-response step of                      *)
(* TokenParsingMiddleware, the cost-tracking callback and the middleware   *)
(* chain assembled by runServer.                                           *)
(*                                                                         *)
(* A request path "/a/b/c" is the sequence <<"a","b","c">> of its segments.*)
(* A response body is a sequence of abstract bytes; every abstract byte    *)
(* stands for one indivisible run of wire bytes:                           *)
(*   "M"  SSE payload  data: {"id":..,"model":..,"choices":[{"delta":..}]} *)
(*   "F"  SSE payload  with choices[0].finish_reason = "stop"              *)
(*   "U"  SSE payload  with usage {7, 5, 12}                               *)
(*   "D"  SSE payload  data: [DONE]                                        *)
(*   "X"  a payload that is not JSON                                       *)
(*   "S"  the frame separator \n\n                                         *)
(*   "J"  a complete unary JSON body with usage {7, 5, 12}                 *)
(*   "Z"  a complete unary JSON body without usage                         *)
(* A pointer is a sequence of length 0 (nil) or 1.                         *)
(***************************************************************************)
EXTENDS Integers, Sequences, FiniteSets, TLC

\* ---------------------------------------------------------------- bounds
MaxChunk == 3
MaxReq == 3

Nil == <<>>
Some(x) == <<x>>

\* ------------------------------------------------------- request paths
ProviderNames == {"openai", "anthropic", "gemini", "groq"}

Paths ==
  { <<"openai", "v1", "chat", "completions">>,
    <<"groq", "v1", "chat", "completions">>,
    <<"anthropic", "v1", "messages">>,
    <<"gemini", "v1", "models", "m:generateContent">>,
    <<"openai", "health">>,
    <<"health">>,
    <<"v1", "completions">>,
    <<"meta", "u1", "openai", "v1", "chat", "completions">>,
    <<"meta", "u1", "other", "v1", "completions">> }

\* strings.HasPrefix(path, "/" + name + "/")
HasPrefixSeg(path, name) == Len(path) >= 2 /\ path[1] = name

\* segments s with strings.HasPrefix(s, "completions"), strings.HasPrefix(s, "messages"),
\* strings.Contains(s, ":generateContent"), strings.Contains(s, ":streamGenerateContent")
SegCompletions == {"completions"}
SegMessages == {"messages"}
SegGenerate == {"m:generateContent"}
SegStreamGenerate == {"m:streamGenerateContent"}

IsAPIEndpoint(path) ==
  \/ \E i \in 1..(Len(path) - 1) : path[i] = "chat" /\ path[i + 1] \in SegCompletions
  \/ \E i \in 1..Len(path) : path[i] \in SegCompletions
  \/ \E i \in 1..Len(path) : path[i] \in SegMessages
  \/ \E i \in 1..Len(path) : path[i] \in SegGenerate
  \/ \E i \in 1..Len(path) : path[i] \in SegStreamGenerate

\* --------------------------------------------------- provider registry
\* A registry maps a provider name to the kind of the adapter registered
\* under it: "real" (the production adapter), "mockFail" / "mockOk"
\* (FailingMockProvider with parseShouldFail true / false), or "none".
Registries ==
  { [n \in ProviderNames |-> "none"],
    [n \in ProviderNames |-> "real"],
    [n \in ProviderNames |-> IF n = "openai" THEN "mockFail" ELSE "none"],
    [n \in ProviderNames |-> IF n = "openai" THEN "mockOk" ELSE "none"] }

GetProvider(reg, name) ==
  IF reg[name] = "none" THEN Nil ELSE Some([name |-> name, kind |-> reg[name]])

\* (mutant) only the direct provider paths are resolved
GetProviderDirectOnly(reg, path) ==
  IF HasPrefixSeg(path, "openai") THEN GetProvider(reg, "openai")
  ELSE IF HasPrefixSeg(path, "anthropic") THEN GetProvider(reg, "anthropic")
  ELSE IF HasPrefixSeg(path, "gemini") THEN GetProvider(reg, "gemini")
  ELSE IF HasPrefixSeg(path, "groq") THEN GetProvider(reg, "groq")
  ELSE Nil

GetProviderFromRequest(reg, path) ==
  IF HasPrefixSeg(path, "meta") /\ Len(path) >= 3 /\ path[3] \in ProviderNames
    THEN GetProvider(reg, path[3])
  ELSE IF HasPrefixSeg(path, "openai") THEN GetProvider(reg, "openai")
  ELSE IF HasPrefixSeg(path, "anthropic") THEN GetProvider(reg, "anthropic")
  ELSE IF HasPrefixSeg(path, "gemini") THEN GetProvider(reg, "gemini")
  ELSE IF HasPrefixSeg(path, "groq") THEN GetProvider(reg, "groq")
  ELSE Nil

\* ------------------------------------------------------------ metadata
Metadata(provider, model, id, inTok, outTok, total, streaming, finish) ==
  [Provider |-> provider, Model |-> model, RequestID |-> id,
   InputTokens |-> inTok, OutputTokens |-> outTok, TotalTokens |-> total,
   ThoughtTokens |-> 0, IsStreaming |-> streaming, FinishReason |-> finish]

ParseOk(md) == [md |-> Some(md), err |-> FALSE]
ParseErr == [md |-> Nil, err |-> TRUE]

\* complete frames of an SSE buffer: split on the separator, the trailing
\* partial frame is not a frame yet
RECURSIVE FramesFrom(_, _, _)
FramesFrom(buf, i, cur) ==
  IF i > Len(buf) THEN <<>>
  ELSE IF buf[i] = "S" THEN <<cur>> \o FramesFrom(buf, i + 1, <<>>)
  ELSE FramesFrom(buf, i + 1, Append(cur, buf[i]))

Frames(buf) == FramesFrom(buf, 1, <<>>)

\* one frame folded into the accumulated fields: the latest non-null field wins
ApplyFrame(acc, frame) ==
  IF frame = <<"M">> THEN
    [acc EXCEPT !.seen = TRUE, !.model = "gpt-4o-mini", !.id = "chatcmpl-1"]
  ELSE IF frame = <<"F">> THEN
    [acc EXCEPT !.seen = TRUE, !.model = "gpt-4o-mini", !.id = "chatcmpl-1",
                !.finish = "stop"]
  ELSE IF frame = <<"U">> THEN
    [acc EXCEPT !.seen = TRUE, !.model = "gpt-4o-mini", !.id = "chatcmpl-1",
                !.inTok = 7, !.outTok = 5, !.total = 12]
  ELSE acc

RECURSIVE FoldFrames(_, _, _)
FoldFrames(frames, i, acc) ==
  IF i > Len(frames) THEN acc
  ELSE FoldFrames(frames, i + 1, ApplyFrame(acc, frames[i]))

EmptyAcc ==
  [seen |-> FALSE, model |-> "", id |-> "", inTok |-> 0, outTok |-> 0,
   total |-> 0, finish |-> ""]

\* OpenAIProxy.ParseResponseMetadata, streaming branch
ParseStreaming(buf) ==
  LET acc == FoldFrames(Frames(buf), 1, EmptyAcc) IN
    IF ~acc.seen THEN ParseErr
    ELSE ParseOk(Metadata("openai", acc.model, acc.id, acc.inTok, acc.outTok,
                          acc.total, TRUE, acc.finish))

\* OpenAIProxy.ParseResponseMetadata, unary branch
ParseUnary(buf) ==
  IF buf = <<"J">> THEN
    ParseOk(Metadata("openai", "gpt-4o-mini", "chatcmpl-1", 7, 5, 12, FALSE, "stop"))
  ELSE IF buf = <<"Z">> THEN
    ParseOk(Metadata("openai", "", "", 0, 0, 0, FALSE, ""))
  ELSE ParseErr

OpenAIParseResponseMetadata(buf, streaming) ==
  IF streaming THEN ParseStreaming(buf) ELSE ParseUnary(buf)

\* the production adapters reuse the parse and fix the provider name
AdapterParseResponseMetadata(name, buf, streaming) ==
  LET r == OpenAIParseResponseMetadata(buf, streaming) IN
    IF r.md # Nil
      THEN [r EXCEPT !.md = Some([r.md[1] EXCEPT !.Provider = name])]
      ELSE r

\* FailingMockProvider.ParseResponseMetadata
MockParseResponseMetadata(p, buf, streaming) ==
  IF p.kind = "mockFail" THEN ParseErr
  ELSE ParseOk(Metadata(p.name, "test-model", "", 10, 5, 15, streaming, ""))

\* provider.ParseResponseMetadata(bodyReader, isStreaming), dispatched on the adapter
ParseResponseMetadata(p, buf, streaming) ==
  IF p.kind = "real" THEN AdapterParseResponseMetadata(p.name, buf, streaming)
  ELSE MockParseResponseMetadata(p, buf, streaming)

\* ------------------------------------------------------ request inputs
Transcripts ==
  { <<"M", "S", "F", "S", "U", "S", "D", "S">>,
    <<"M", "S", "D", "S">>,
    <<"X", "S">>,
    <<"J">>,
    <<"Z">> }

\* the callbacks handed to TokenParsingMiddleware: "cost" is runServer's
\* costTrackingCallback, "probe" a callback that records its call, "nil" a nil one
CallbackLists ==
  { <<>>, <<"cost">>, <<"probe", "cost">>, <<"nil", "probe">> }

Statuses == {200, 500}

XHeaders ==
  {"X-LLM-Input-Tokens", "X-LLM-Output-Tokens", "X-LLM-Total-Tokens",
   "X-LLM-Thought-Tokens", "X-LLM-Provider", "X-LLM-Model", "X-LLM-Request-ID"}

VARIABLES
  path,          \* r.URL.Path
  reg,           \* the provider manager's registry
  isStreaming,   \* providerManager.IsStreamingRequest(r)
  callbacks,     \* the callbacks the middleware was built with
  transcript,    \* the bytes the inner handler is going to write
  pos,           \* how many of them it has written
  body,          \* responseCapture.body
  lastMetadata,  \* responseCapture.lastMetadata
  lastParsedPos, \* responseCapture.lastParsedPos
  hdr,           \* w.Header(): set of <<name, value>>
  committed,     \* the response header has been sent
  wireStatus,    \* status line the client received (0: none yet)
  wireHdr,       \* header the client received
  wire,          \* bytes handed to the downstream writer, in order
  pc,            \* "serving", "returned", "done", "aborted"
  delivered,     \* metadata the post-response step acted on
  cbLog,         \* callback invocations [cb, md]
  trackLog,      \* globalCostTracker.TrackRequest calls
  parseLog,      \* parser invocations [at, len, streaming, md, err]
  handlerStatus  \* the code the inner handler gave WriteHeader (0: none)

capVars ==
  <<path, reg, isStreaming, callbacks, transcript, pos, body, lastMetadata,
    lastParsedPos, hdr, committed, wireStatus, wireHdr, wire, pc, delivered,
    cbLog, trackLog, parseLog, handlerStatus>>

\* responseCapture.provider
provider == GetProviderFromRequest(reg, path)

\* --------------------------------------------------------- http header
HGet(h, k) == IF \E p \in h : p[1] = k THEN (CHOOSE p \in h : p[1] = k)[2] ELSE ""
HHas(h, k) == \E p \in h : p[1] = k
HSet(h, k, v) == {p \in h : p[1] # k} \cup {<<k, v>>}

Digit == <<"0", "1", "2", "3", "4", "5", "6", "7", "8", "9">>

\* fmt.Sprintf("%d", n)
RECURSIVE Itoa(_)
Itoa(n) ==
  IF n < 0 THEN "-" \o Itoa(0 - n)
  ELSE IF n < 10 THEN Digit[n + 1]
  ELSE Itoa(n \div 10) \o Digit[(n % 10) + 1]

\* ----------------------------------------------- responseCapture.Write
\* (mutant) only the bytes after lastParsedPos are parsed
CaptureWriteSuffix(rc, b) ==
  LET allData == rc.body \o b IN
    IF rc.isStreaming /\ rc.provider # Nil /\ Len(allData) > rc.lastParsedPos THEN
      LET r == ParseResponseMetadata(rc.provider[1],
                 SubSeq(allData, rc.lastParsedPos + 1, Len(allData)), TRUE) IN
        [rc EXCEPT !.body = allData,
                   !.lastMetadata = IF ~r.err /\ r.md # Nil THEN r.md ELSE @,
                   !.lastParsedPos = Len(allData),
                   !.parsed = Some([at |-> "write", len |-> Len(allData),
                                    streaming |-> TRUE,
                                    md |-> r.md, err |-> r.err])]
    ELSE [rc EXCEPT !.body = allData, !.parsed = Nil]

\* (mutant) the first metadata parsed is kept, later ones are dropped
CaptureWriteKeepFirst(rc, b) ==
  LET allData == rc.body \o b IN
    IF rc.isStreaming /\ rc.provider # Nil /\ Len(allData) > rc.lastParsedPos THEN
      LET r == ParseResponseMetadata(rc.provider[1], allData, TRUE) IN
        [rc EXCEPT !.body = allData,
                   !.lastMetadata = IF ~r.err /\ r.md # Nil /\ @ = Nil
                                      THEN r.md ELSE @,
                   !.lastParsedPos = Len(allData),
                   !.parsed = Some([at |-> "write", len |-> Len(allData),
                                    streaming |-> TRUE,
                                    md |-> r.md, err |-> r.err])]
    ELSE [rc EXCEPT !.body = allData, !.parsed = Nil]

\* the capture after rc.body.Write(b) and the streaming re-parse
CaptureWrite(rc, b) ==
  LET allData == rc.body \o b IN
    IF rc.isStreaming /\ rc.provider # Nil /\ Len(allData) > rc.lastParsedPos THEN
      LET r == ParseResponseMetadata(rc.provider[1], allData, TRUE) IN
        [rc EXCEPT !.body = allData,
                   !.lastMetadata = IF ~r.err /\ r.md # Nil THEN r.md ELSE @,
                   !.lastParsedPos = Len(allData),
                   !.parsed = Some([at |-> "write", len |-> Len(allData),
                                    streaming |-> TRUE,
                                    md |-> r.md, err |-> r.err])]
    ELSE [rc EXCEPT !.body = allData, !.parsed = Nil]

\* (mutant) the whole buffer is forwarded instead of the chunk
ForwardedBuffer(rc, b) == rc.body \o b

\* the bytes of rc.ResponseWriter.Write(b)
Forwarded(rc, b) == b

Write ==
  /\ pc = "serving"
  /\ \E n \in 0..MaxChunk :
       /\ pos + n <= Len(transcript)
       /\ LET b == SubSeq(transcript, pos + 1, pos + n)
              rc0 == [body |-> body, isStreaming |-> isStreaming,
                      provider |-> provider, lastMetadata |-> lastMetadata,
                      lastParsedPos |-> lastParsedPos, parsed |-> Nil]
              rc1 == CaptureWrite(rc0, b)
          IN /\ body' = rc1.body
             /\ lastMetadata' = rc1.lastMetadata
             /\ lastParsedPos' = rc1.lastParsedPos
             /\ parseLog' = parseLog \o rc1.parsed
             /\ wire' = wire \o Forwarded(rc0, b)
             /\ pos' = pos + n
  /\ committed' = TRUE
  /\ wireStatus' = IF committed THEN wireStatus ELSE 200
  /\ wireHdr' = IF committed THEN wireHdr ELSE hdr
  /\ UNCHANGED <<path, reg, isStreaming, callbacks, transcript, hdr, pc,
                 delivered, cbLog, trackLog, handlerStatus>>

\* the inner handler calls w.WriteHeader(code); responseCapture passes it on
WriteHeader ==
  /\ pc = "serving"
  /\ ~committed
  /\ \E code \in Statuses : wireStatus' = code /\ handlerStatus' = code
  /\ committed' = TRUE
  /\ wireHdr' = hdr
  /\ UNCHANGED <<path, reg, isStreaming, callbacks, transcript, pos, body,
                 lastMetadata, lastParsedPos, hdr, wire, pc, delivered,
                 cbLog, trackLog, parseLog>>

\* ------------------------------ TokenParsingMiddleware, after next.ServeHTTP
\* the metadata the post-response step works with: the streaming capture's
\* last metadata when there is one, a parse of the whole buffer otherwise
SelectMetadata(streaming, last, p, buf) ==
  IF streaming /\ last # Nil
    THEN [md |-> last, err |-> FALSE, parsed |-> Nil]
    ELSE LET r == ParseResponseMetadata(p, buf, streaming) IN
           [md |-> r.md, err |-> r.err,
            parsed |-> Some([at |-> "end", len |-> Len(buf),
                             streaming |-> streaming,
                             md |-> r.md, err |-> r.err])]

\* w.Header().Set of the seven usage headers
SetUsageHeaders(h, md) ==
  LET h1 == HSet(h, "X-LLM-Input-Tokens", Itoa(md.InputTokens))
      h2 == HSet(h1, "X-LLM-Output-Tokens", Itoa(md.OutputTokens))
      h3 == HSet(h2, "X-LLM-Total-Tokens", Itoa(md.TotalTokens))
      h4 == HSet(h3, "X-LLM-Thought-Tokens", Itoa(md.ThoughtTokens))
      h5 == HSet(h4, "X-LLM-Provider", md.Provider)
      h6 == HSet(h5, "X-LLM-Model", md.Model)
  IN IF md.RequestID # "" THEN HSet(h6, "X-LLM-Request-ID", md.RequestID) ELSE h6

\* (mutant) every iteration of the loop calls the last callback
RECURSIVE InvokeCallbacksLast(_, _, _)
InvokeCallbacksLast(cbs, i, md) ==
  IF i > Len(cbs) THEN <<>>
  ELSE (IF cbs[Len(cbs)] # "nil"
          THEN <<[cb |-> Len(cbs), kind |-> cbs[Len(cbs)], md |-> md]>> ELSE <<>>)
         \o InvokeCallbacksLast(cbs, i + 1, md)

\* the loop over the callbacks: one invocation of every non-nil callback
RECURSIVE InvokeCallbacks(_, _, _)
InvokeCallbacks(cbs, i, md) ==
  IF i > Len(cbs) THEN <<>>
  ELSE (IF cbs[i] # "nil" THEN <<[cb |-> i, kind |-> cbs[i], md |-> md]>> ELSE <<>>)
         \o InvokeCallbacks(cbs, i + 1, md)

\* (mutant) the callback tracks whatever it is given
costTrackingCallbackUnchecked(md) == <<md>>

\* runServer's costTrackingCallback: the TrackRequest calls one invocation makes
costTrackingCallback(md) ==
  IF md.TotalTokens > 0 THEN <<md>> ELSE <<>>

RECURSIVE TrackCalls(_, _)
TrackCalls(calls, i) ==
  IF i > Len(calls) THEN <<>>
  ELSE (IF calls[i].kind = "cost" THEN costTrackingCallback(calls[i].md) ELSE <<>>)
         \o TrackCalls(calls, i + 1)

\* (mutant) every response of a resolved provider is processed
ShouldProcessAnyPath(p, pth) == p # Nil

\* whether the post-response step looks at the response at all
ShouldProcess(p, pth) == p # Nil /\ IsAPIEndpoint(pth)

\* (mutant) a failed parse is treated as empty metadata
PostResponseIgnoringError(streaming, last, p, pth, buf, cbs, h) ==
  IF p # Nil /\ IsAPIEndpoint(pth) THEN
    LET sel == SelectMetadata(streaming, last, p[1], buf)
        md == IF sel.md # Nil THEN sel.md[1]
              ELSE Metadata("", "", "", 0, 0, 0, streaming, "")
    IN [hdr |-> SetUsageHeaders(h, md), delivered |-> Some(md),
        calls |-> InvokeCallbacks(cbs, 1, md), parsed |-> sel.parsed]
  ELSE [hdr |-> h, delivered |-> Nil, calls |-> <<>>, parsed |-> Nil]

\* lines 90-183: what the post-response step does to the header map h and
\* which callbacks it invokes, for the capture (streaming, last, buf) of
\* provider pointer p on path pth with callbacks cbs
PostResponse(streaming, last, p, pth, buf, cbs, h) ==
  IF ShouldProcess(p, pth) THEN
    LET sel == SelectMetadata(streaming, last, p[1], buf) IN
      IF sel.err THEN
        [hdr |-> h, delivered |-> Nil, calls |-> <<>>, parsed |-> sel.parsed]
      ELSE IF sel.md # Nil THEN
        [hdr |-> SetUsageHeaders(h, sel.md[1]), delivered |-> sel.md,
         calls |-> InvokeCallbacks(cbs, 1, sel.md[1]), parsed |-> sel.parsed]
      ELSE
        [hdr |-> h, delivered |-> Nil, calls |-> <<>>, parsed |-> sel.parsed]
  ELSE [hdr |-> h, delivered |-> Nil, calls |-> <<>>, parsed |-> Nil]

\* the inner handler returns and the middleware runs to its end
ServeReturn ==
  /\ pc = "serving"
  /\ pc' = "returned"
  /\ LET post == PostResponse(isStreaming, lastMetadata, provider, path, body,
                              callbacks, hdr)
     IN /\ parseLog' = parseLog \o post.parsed
        /\ hdr' = post.hdr
        /\ delivered' = post.delivered
        /\ cbLog' = cbLog \o post.calls
        /\ trackLog' = trackLog \o TrackCalls(post.calls, 1)
  /\ UNCHANGED <<path, reg, isStreaming, callbacks, transcript, pos, body,
                 lastMetadata, lastParsedPos, committed, wireStatus, wireHdr,
                 wire, handlerStatus>>

\* the inner handler aborts the request (panic(http.ErrAbortHandler), as
\* httputil.ReverseProxy does when copying the response fails): the panic
\* unwinds through the middleware, which has no deferred step
Abort ==
  /\ pc = "serving"
  /\ pc' = "aborted"
  /\ UNCHANGED <<path, reg, isStreaming, callbacks, transcript, pos, body,
                 lastMetadata, lastParsedPos, hdr, committed, wireStatus,
                 wireHdr, wire, delivered, cbLog, trackLog, parseLog,
                 handlerStatus>>

\* the server finishes the response once the handler chain has returned:
\* a header not yet sent goes out now, with status 200
FinishRequest ==
  /\ pc = "returned"
  /\ pc' = "done"
  /\ committed' = TRUE
  /\ wireStatus' = IF committed THEN wireStatus ELSE 200
  /\ wireHdr' = IF committed THEN wireHdr ELSE hdr
  /\ UNCHANGED <<path, reg, isStreaming, callbacks, transcript, pos, body,
                 lastMetadata, lastParsedPos, hdr, wire, delivered, cbLog,
                 trackLog, parseLog, handlerStatus>>

CapInit ==
  /\ path \in Paths
  /\ reg \in Registries
  /\ isStreaming \in BOOLEAN
  /\ callbacks \in CallbackLists
  /\ transcript \in Transcripts
  /\ pos = 0
  /\ body = <<>>
  /\ lastMetadata = Nil
  /\ lastParsedPos = 0
  /\ hdr = {}
  /\ committed = FALSE
  /\ wireStatus = 0
  /\ wireHdr = {}
  /\ wire = <<>>
  /\ pc = "serving"
  /\ delivered = Nil
  /\ cbLog = <<>>
  /\ trackLog = <<>>
  /\ parseLog = <<>>
  /\ handlerStatus = 0

\* ------------------------------------------- runServer: the middleware chain
ChainPaths ==
  { <<"openai", "v1", "chat", "completions">>,
    <<"groq", "v1", "chat", "completions">>,
    <<"openai", "v1", "models">>,
    <<"health">>,
    <<"meta", "u1", "openai", "v1", "chat", "completions">>,
    <<"meta", "u2", "groq", "v1", "chat", "completions">> }

\* interceptors that may answer the request themselves instead of calling next
ShortCircuiting == {"apikey", "ratelimit", "cors"}

VARIABLES
  cfg,               \* [keyStore, rlEnabled, factoryErr]: what runServer starts from
  boot,              \* "off", "start", "use", "listening"
  globalRateLimiter, \* TRUE: a limiter was initialised
  middlewares,       \* the router's middlewares, in r.Use order
  reqPath,           \* r.URL.Path of the request in the chain
  reqUser,           \* user id on the request context ("" when none)
  stage,             \* 0: no request; i: interceptor i runs next
  visited,           \* interceptors entered so far, with the path each one saw
  logged,            \* what runServer wrote to the error log
  reqStreaming,      \* providerManager.IsStreamingRequest of the request
  reqTranscript,     \* the bytes the route's handler writes
  answeredBy,        \* "": nobody yet; an interceptor's name; "handler"; "aborted"
  up,                \* interceptors whose call to next has yet to return
  respHdr,           \* w.Header() of the request in the chain
  chainMd,           \* metadata the token-parsing interceptor delivered
  rlRead             \* X-LLM-Input-Tokens as the rate limiter read it on return

chainVars ==
  <<cfg, boot, globalRateLimiter, middlewares, reqPath, reqUser, stage, visited,
    logged, reqStreaming, reqTranscript, answeredBy, up, respHdr, chainMd, rlRead>>

\* what the route's handler may write
ChainTranscripts ==
  { <<"M", "S", "U", "S", "D", "S">>, <<"X", "S">>, <<"J">> }


\* lines 496-510: the limiter is kept only when the factory returned no error
InitializeRateLimiter ==
  /\ boot = "start"
  /\ boot' = "use"
  /\ globalRateLimiter' = (cfg.rlEnabled /\ ~cfg.factoryErr)
  /\ logged' = IF cfg.rlEnabled /\ cfg.factoryErr
                 THEN logged \cup {"Failed to initialize rate limiter"}
                 ELSE logged
  /\ UNCHANGED <<cfg, middlewares, reqPath, reqUser, stage, visited,
                 reqStreaming, reqTranscript, answeredBy, up, respHdr,
                 chainMd, rlRead>>

\* (mutant) token parsing is added before, so wraps, the rate limiter
RunServerMiddlewaresParsingFirst(keyStore, limiter) ==
  LET m1 == <<"meta">>
      m2 == IF keyStore THEN Append(m1, "apikey") ELSE m1
      m3 == Append(Append(m2, "logging"), "tokenparsing")
      m4 == IF limiter THEN Append(m3, "ratelimit") ELSE m3
      m5 == Append(m4, "cors")
  IN Append(m5, "streaming")

\* (mutant) the rate limiter is added whether or not one was initialised
RunServerMiddlewaresAlwaysLimit(keyStore, limiter) ==
  LET m1 == <<"meta">>
      m2 == IF keyStore THEN Append(m1, "apikey") ELSE m1
      m3 == Append(Append(m2, "logging"), "ratelimit")
      m5 == Append(m3, "cors")
      m6 == Append(m5, "tokenparsing")
  IN Append(m6, "streaming")

\* (mutant) the access log is added before the meta-URL rewrite
RunServerMiddlewaresLoggingFirst(keyStore, limiter) ==
  LET m1 == <<"logging", "meta">>
      m2 == IF keyStore THEN Append(m1, "apikey") ELSE m1
      m4 == IF limiter THEN Append(m2, "ratelimit") ELSE m2
      m5 == Append(m4, "cors")
      m6 == Append(m5, "tokenparsing")
  IN Append(m6, "streaming")

\* (mutant) the meta-URL rewrite is not added
RunServerMiddlewaresNoRewrite(keyStore, limiter) ==
  LET m2 == IF keyStore THEN <<"apikey">> ELSE <<>>
      m3 == Append(m2, "logging")
      m4 == IF limiter THEN Append(m3, "ratelimit") ELSE m3
      m5 == Append(m4, "cors")
      m6 == Append(m5, "tokenparsing")
  IN Append(m6, "streaming")

\* lines 523-556: the r.Use calls, in program order
RunServerMiddlewares(keyStore, limiter) ==
  LET m1 == <<"meta">>
      m2 == IF keyStore THEN Append(m1, "apikey") ELSE m1
      m3 == Append(m2, "logging")
      m4 == IF limiter THEN Append(m3, "ratelimit") ELSE m3
      m5 == Append(m4, "cors")
      m6 == Append(m5, "tokenparsing")
  IN Append(m6, "streaming")

UseMiddlewares ==
  /\ boot = "use"
  /\ boot' = "listening"
  /\ middlewares' = RunServerMiddlewares(cfg.keyStore, globalRateLimiter)
  /\ UNCHANGED <<cfg, globalRateLimiter, reqPath, reqUser, stage, visited,
                 logged, reqStreaming, reqTranscript, answeredBy, up, respHdr,
                 chainMd, rlRead>>

\* MetaURLRewritingMiddleware: /meta/<userID>/<provider>/<rest> becomes
\* /<provider>/<rest> and <userID> goes on the request context
MetaURLRewrite(p) ==
  IF Len(p) >= 4 /\ p[1] = "meta" /\ p[3] \in ProviderNames
    THEN [path |-> SubSeq(p, 3, Len(p)), user |-> p[2]]
    ELSE [path |-> p, user |-> ""]

\* LoggingMiddleware: isProviderRoute(r.URL.Path)
isProviderRoute(urlPath) ==
  \/ HasPrefixSeg(urlPath, "openai")
  \/ HasPrefixSeg(urlPath, "anthropic")
  \/ HasPrefixSeg(urlPath, "gemini")
  \/ HasPrefixSeg(urlPath, "groq")

\* LoggingMiddleware: isAPIEndpoint(r.URL.Path)
isAPIEndpoint(urlPath) ==
  \/ \E i \in 1..(Len(urlPath) - 1) :
       urlPath[i] = "chat" /\ urlPath[i + 1] \in SegCompletions
  \/ \E i \in 1..Len(urlPath) : urlPath[i] \in SegCompletions
  \/ \E i \in 1..Len(urlPath) : urlPath[i] \in SegMessages
  \/ \E i \in 1..Len(urlPath) : urlPath[i] \in SegGenerate
  \/ \E i \in 1..Len(urlPath) : urlPath[i] \in SegStreamGenerate

\* LoggingMiddleware: willBeTracked := isProvRoute && isAPIEndpt && provider != nil
willBeTracked(registry, urlPath) ==
  /\ isProviderRoute(urlPath)
  /\ isAPIEndpoint(urlPath)
  /\ GetProviderFromRequest(registry, urlPath) # Nil

\* a matched request enters the chain at the first middleware added
Accept ==
  /\ boot = "listening"
  /\ stage = 0
  /\ reqPath' \in ChainPaths
  /\ reqUser' = ""
  /\ stage' = 1
  /\ visited' = <<>>
  /\ reqStreaming' \in BOOLEAN
  /\ reqTranscript' \in ChainTranscripts
  /\ answeredBy' = ""
  /\ up' = 0
  /\ respHdr' = {}
  /\ chainMd' = Nil
  /\ rlRead' = Nil
  /\ UNCHANGED <<cfg, boot, globalRateLimiter, middlewares, logged>>

\* the interceptor at the current stage runs: it calls next, or answers itself
Intercept ==
  /\ stage \in 1..Len(middlewares)
  /\ LET name == middlewares[stage]
         rw == IF name = "meta" THEN MetaURLRewrite(reqPath)
               ELSE [path |-> reqPath, user |-> reqUser]
     IN /\ visited' = Append(visited, [name |-> name, path |-> reqPath, user |-> reqUser])
        /\ reqPath' = rw.path
        /\ reqUser' = rw.user
        /\ \/ /\ stage' = stage + 1
              /\ UNCHANGED <<answeredBy, up>>
           \/ /\ name \in ShortCircuiting
              /\ stage' = Len(middlewares) + 2
              /\ answeredBy' = name
              /\ up' = stage - 1
  /\ UNCHANGED <<cfg, boot, globalRateLimiter, middlewares, logged,
                 reqStreaming, reqTranscript, respHdr, chainMd, rlRead>>

\* the route's handler (the provider's proxy) runs and the chain unwinds
Handle ==
  /\ boot = "listening"
  /\ stage = Len(middlewares) + 1
  /\ stage' = Len(middlewares) + 2
  /\ answeredBy' = "handler"
  /\ up' = Len(middlewares)
  /\ UNCHANGED <<cfg, boot, globalRateLimiter, middlewares, reqPath, reqUser,
                 visited, logged, reqStreaming, reqTranscript, respHdr,
                 chainMd, rlRead>>

\* the route's handler is aborted (panic(http.ErrAbortHandler)): the panic
\* unwinds through every interceptor, none of which resumes after next
HandleAbort ==
  /\ boot = "listening"
  /\ stage = Len(middlewares) + 1
  /\ stage' = Len(middlewares) + 2
  /\ answeredBy' = "aborted"
  /\ up' = 0
  /\ UNCHANGED <<cfg, boot, globalRateLimiter, middlewares, reqPath, reqUser,
                 visited, logged, reqStreaming, reqTranscript, respHdr,
                 chainMd, rlRead>>

\* the response capture of the request in the chain, after the handler wrote
\* its transcript
ChainCapture ==
  CaptureWrite([body |-> <<>>, isStreaming |-> reqStreaming,
                provider |-> GetProviderFromRequest(
                               [n \in ProviderNames |-> "real"], reqPath),
                lastMetadata |-> Nil, lastParsedPos |-> 0, parsed |-> Nil],
               reqTranscript)

\* next.ServeHTTP returns in the innermost interceptor that still waits for
\* it, and that interceptor runs its code after the call
Return ==
  /\ boot = "listening"
  /\ stage = Len(middlewares) + 2
  /\ up >= 1
  /\ up' = up - 1
  /\ LET name == middlewares[up]
         rc == ChainCapture
         post == PostResponse(reqStreaming, rc.lastMetadata, rc.provider,
                              reqPath, rc.body, <<>>, respHdr)
     IN /\ respHdr' = IF name = "tokenparsing" THEN post.hdr ELSE respHdr
        /\ chainMd' = IF name = "tokenparsing" THEN post.delivered ELSE chainMd
        /\ rlRead' = IF name = "ratelimit"
                       THEN Some(HGet(respHdr, "X-LLM-Input-Tokens"))
                       ELSE rlRead
  /\ UNCHANGED <<cfg, boot, globalRateLimiter, middlewares, reqPath, reqUser,
                 stage, visited, logged, reqStreaming, reqTranscript,
                 answeredBy>>

\* the response is complete; the server takes the next request
Complete ==
  /\ boot = "listening"
  /\ stage = Len(middlewares) + 2
  /\ up = 0
  /\ stage' = 0
  /\ UNCHANGED <<cfg, boot, globalRateLimiter, middlewares, reqPath, reqUser,
                 visited, logged, reqStreaming, reqTranscript, answeredBy, up,
                 respHdr, chainMd, rlRead>>

ChainOff ==
  /\ cfg = [keyStore |-> FALSE, rlEnabled |-> FALSE, factoryErr |-> FALSE]
  /\ boot = "off"
  /\ globalRateLimiter = FALSE
  /\ middlewares = <<>>
  /\ reqPath = <<>>
  /\ reqUser = ""
  /\ stage = 0
  /\ visited = <<>>
  /\ logged = {}
  /\ reqStreaming = FALSE
  /\ reqTranscript = <<>>
  /\ answeredBy = ""
  /\ up = 0
  /\ respHdr = {}
  /\ chainMd = Nil
  /\ rlRead = Nil

ChainInit ==
  /\ cfg \in [keyStore : BOOLEAN, rlEnabled : BOOLEAN, factoryErr : BOOLEAN]
  /\ boot = "start"
  /\ globalRateLimiter = FALSE
  /\ middlewares = <<>>
  /\ reqPath = <<>>
  /\ reqUser = ""
  /\ stage = 0
  /\ visited = <<>>
  /\ logged = {}
  /\ reqStreaming = FALSE
  /\ reqTranscript = <<>>
  /\ answeredBy = ""
  /\ up = 0
  /\ respHdr = {}
  /\ chainMd = Nil
  /\ rlRead = Nil

\* no request is in the capture while the chain is looked at
CapOff ==
  /\ path = <<"health">>
  /\ reg = [n \in ProviderNames |-> "real"]
  /\ isStreaming = FALSE
  /\ callbacks = <<>>
  /\ transcript = <<>>
  /\ pos = 0
  /\ body = <<>>
  /\ lastMetadata = Nil
  /\ lastParsedPos = 0
  /\ hdr = {}
  /\ committed = FALSE
  /\ wireStatus = 0
  /\ wireHdr = {}
  /\ wire = <<>>
  /\ pc = "off"
  /\ delivered = Nil
  /\ cbLog = <<>>
  /\ trackLog = <<>>
  /\ parseLog = <<>>
  /\ handlerStatus = 0

\* ------------------------------------------------------- the rate limiter
\* RateLimitState: one record (requests_used, tokens_used, tokens_reserved)
\* per key and window start.  The keys of a request are its user's minute
\* window and its user's day window.
LimUsers == {"u1", "u2"}

\* the minute windows the clock goes through
Minutes == {0, 1}

Limits ==
  [minute |-> [requests |-> 2, tokens |-> 3],
   day    |-> [requests |-> 3, tokens |-> 6]]

Estimates == {1, 4}
Actuals == {0, 2, 5}

LimKeys ==
  {<<u, "minute", m>> : u \in LimUsers, m \in Minutes}
    \cup {<<u, "day", 0>> : u \in LimUsers}

KeysOf(u, m) == {<<u, "minute", m>>, <<u, "day", 0>>}

VARIABLES
  rlState,   \* the counter map: key -> RateLimitState
  rlMinute,  \* start of the current minute window
  rlReq,     \* the requests: what the limiter did with each
  rlOps      \* how often reserve, commit, release were applied for each

limVars == <<rlState, rlMinute, rlReq, rlOps>>

\* all token counters of the identity are exactly zero
TokensZero(st, u, m) ==
  \A k \in KeysOf(u, m) : st[k].tokens_used = 0 /\ st[k].tokens_reserved = 0

RequestsFit(st, u, m) ==
  \A k \in KeysOf(u, m) : st[k].requests_used + 1 <= Limits[k[2]].requests

TokensFit(st, u, m, est) ==
  \A k \in KeysOf(u, m) :
    st[k].tokens_used + st[k].tokens_reserved + est <= Limits[k[2]].tokens

\* (mutant) no optimistic first request
AdmitStrict(st, u, m, est) ==
  RequestsFit(st, u, m) /\ TokensFit(st, u, m, est)

\* reserve: deny if any key would exceed its limit, except that a first
\* request (all token counters zero) is not checked against token limits
Admit(st, u, m, est) ==
  RequestsFit(st, u, m) /\ (TokensZero(st, u, m) \/ TokensFit(st, u, m, est))

Reserve(st, u, m, est) ==
  [k \in DOMAIN st |->
     IF k \in KeysOf(u, m)
       THEN [st[k] EXCEPT !.requests_used = @ + 1, !.tokens_reserved = @ + est]
       ELSE st[k]]

\* (mutant) the actual usage is added and the reservation is left in place
CommitKeepReservation(st, u, m, est, actual) ==
  [k \in DOMAIN st |->
     IF k \in KeysOf(u, m)
       THEN [st[k] EXCEPT !.tokens_used = @ + actual]
       ELSE st[k]]

\* commit: the reservation is subtracted and the actual usage added
Commit(st, u, m, est, actual) ==
  [k \in DOMAIN st |->
     IF k \in KeysOf(u, m)
       THEN [st[k] EXCEPT !.tokens_reserved = @ - est, !.tokens_used = @ + actual]
       ELSE st[k]]

\* release: the reservation is refunded
Release(st, u, m, est) ==
  [k \in DOMAIN st |->
     IF k \in KeysOf(u, m)
       THEN [st[k] EXCEPT !.tokens_reserved = @ - est]
       ELSE st[k]]

\* admission of request i of user u with estimated cost est (requests are
\* numbered in the order in which they reach the limiter)
LimReserve(i) ==
  /\ rlReq[i].st = "new"
  /\ \A j \in 1..(i - 1) : rlReq[j].st # "new"
  /\ \E u \in LimUsers, est \in Estimates :
       LET ok == Admit(rlState, u, rlMinute, est) IN
         /\ rlReq' = [rlReq EXCEPT ![i] =
                        [st |-> IF ok THEN "reserved" ELSE "denied",
                         user |-> u, est |-> est, minute |-> rlMinute,
                         zero |-> TokensZero(rlState, u, rlMinute),
                         reqFit |-> RequestsFit(rlState, u, rlMinute),
                         tokFit |-> TokensFit(rlState, u, rlMinute, est)]]
         /\ rlState' = IF ok THEN Reserve(rlState, u, rlMinute, est) ELSE rlState
         /\ rlOps' = IF ok THEN [rlOps EXCEPT ![i].reserve = @ + 1] ELSE rlOps
  /\ UNCHANGED rlMinute

\* the response of request i parsed: its reservation is committed
LimCommit(i) ==
  /\ rlReq[i].st = "reserved"
  /\ \E actual \in Actuals :
       rlState' = Commit(rlState, rlReq[i].user, rlReq[i].minute,
                         rlReq[i].est, actual)
  /\ rlReq' = [rlReq EXCEPT ![i].st = "committed"]
  /\ rlOps' = [rlOps EXCEPT ![i].commit = @ + 1]
  /\ UNCHANGED rlMinute

\* upstream error, client abort or parse failure: the reservation is released
LimRelease(i) ==
  /\ rlReq[i].st = "reserved"
  /\ rlState' = Release(rlState, rlReq[i].user, rlReq[i].minute, rlReq[i].est)
  /\ rlReq' = [rlReq EXCEPT ![i].st = "released"]
  /\ rlOps' = [rlOps EXCEPT ![i].release = @ + 1]
  /\ UNCHANGED rlMinute

\* the wall clock passes a minute boundary
LimTick ==
  /\ rlMinute + 1 \in Minutes
  /\ rlMinute' = rlMinute + 1
  /\ UNCHANGED <<rlState, rlReq, rlOps>>

NoRequest ==
  [st |-> "new", user |-> "", est |-> 0, minute |-> 0,
   zero |-> FALSE, reqFit |-> FALSE, tokFit |-> FALSE]

LimInit ==
  /\ rlState = [k \in LimKeys |->
                  [requests_used |-> 0, tokens_used |-> 0, tokens_reserved |-> 0]]
  /\ rlMinute = 0
  /\ rlReq = [i \in 1..MaxReq |-> NoRequest]
  /\ rlOps = [i \in 1..MaxReq |-> [reserve |-> 0, commit |-> 0, release |-> 0]]

\* no limiter is looked at
LimOff ==
  /\ rlState = << >>
  /\ rlMinute = 0
  /\ rlReq = << >>
  /\ rlOps = << >>

\* ------------------------------------------- GroqProxy.ValidateAPIKey
\* An Authorization header value is [scheme, cred]: "Bearer k" is
\* [scheme |-> "Bearer", cred |-> "k"]; the empty value has both empty.
NoAuth == [scheme |-> "", cred |-> ""]

AuthHeaders ==
  { NoAuth,
    [scheme |-> "Basic", cred |-> "dXNlcg"],
    [scheme |-> "bearer", cred |-> "iw:a"],
    [scheme |-> "Bearer", cred |-> "iw:a"],
    [scheme |-> "Bearer", cred |-> "iw:b"],
    [scheme |-> "Bearer", cred |-> "sk-x"],
    [scheme |-> "Bearer", cred |-> ""] }

\* what keyStore.ValidateAndGetActualKey returns for the key it is asked
StoreResults ==
  { [actualKey |-> "", provider |-> "", err |-> TRUE] }
    \cup [actualKey : {"iw:a", "sk-x", "sk-y"},
          provider : {"", "groq", "openai"}, err : {FALSE}]

VARIABLES
  kAuth0,   \* Authorization as the client sent it
  kAuth,    \* Authorization of the request
  kStore,   \* the key store's answer
  kPhase,   \* "start", "done"
  kErr,     \* the error ValidateAPIKey returned ("": nil)
  kAsked,   \* the key the store was asked for, if it was asked
  kXKey0,   \* x-api-key as the client sent it ("": none)
  kXKey     \* x-api-key of the request

keyVars == <<kAuth0, kAuth, kStore, kPhase, kErr, kAsked, kXKey0, kXKey>>

\* (mutant) the header is rewritten before the bound provider is compared
ValidateAPIKeyRewriteFirst(name, auth, store) ==
  IF auth = NoAuth THEN [auth |-> auth, err |-> "", asked |-> Nil]
  ELSE IF auth.scheme # "Bearer" THEN [auth |-> auth, err |-> "", asked |-> Nil]
  ELSE LET apiKey == auth.cred
           auth1 == IF ~store.err /\ store.actualKey # apiKey
                      THEN [scheme |-> "Bearer", cred |-> store.actualKey]
                      ELSE auth
       IN IF store.err
            THEN [auth |-> auth1, err |-> "API key validation failed",
                  asked |-> Some(apiKey)]
          ELSE IF store.provider # "" /\ store.provider # name
            THEN [auth |-> auth1, err |-> "API key is for another provider",
                  asked |-> Some(apiKey)]
          ELSE [auth |-> auth1, err |-> "", asked |-> Some(apiKey)]

\* (mutant) the header is never rewritten
ValidateAPIKeyNoRewrite(name, auth, store) ==
  IF auth = NoAuth THEN [auth |-> auth, err |-> "", asked |-> Nil]
  ELSE IF auth.scheme # "Bearer" THEN [auth |-> auth, err |-> "", asked |-> Nil]
  ELSE LET apiKey == auth.cred
       IN IF store.err
            THEN [auth |-> auth, err |-> "API key validation failed",
                  asked |-> Some(apiKey)]
          ELSE IF store.provider # "" /\ store.provider # name
            THEN [auth |-> auth, err |-> "API key is for another provider",
                  asked |-> Some(apiKey)]
          ELSE [auth |-> auth, err |-> "", asked |-> Some(apiKey)]

\* (mutant) every Authorization header is taken for a bearer key
ValidateAPIKeyAnyScheme(name, auth, store) ==
  IF auth = NoAuth THEN [auth |-> auth, err |-> "", asked |-> Nil]
  ELSE LET apiKey == auth.cred
       IN IF store.err
            THEN [auth |-> auth, err |-> "API key validation failed",
                  asked |-> Some(apiKey)]
          ELSE IF store.provider # "" /\ store.provider # name
            THEN [auth |-> auth, err |-> "API key is for another provider",
                  asked |-> Some(apiKey)]
          ELSE IF store.actualKey # apiKey
            THEN [auth |-> [scheme |-> "Bearer", cred |-> store.actualKey],
                  err |-> "", asked |-> Some(apiKey)]
          ELSE [auth |-> auth, err |-> "", asked |-> Some(apiKey)]

\* ValidateAPIKey of the adapter called name, on a request whose
\* Authorization is auth, with a key store answering store
ValidateAPIKey(name, auth, store) ==
  IF auth = NoAuth THEN [auth |-> auth, err |-> "", asked |-> Nil]
  ELSE IF auth.scheme # "Bearer" THEN [auth |-> auth, err |-> "", asked |-> Nil]
  ELSE LET apiKey == auth.cred
       IN IF store.err
            THEN [auth |-> auth, err |-> "API key validation failed",
                  asked |-> Some(apiKey)]
          ELSE IF store.provider # "" /\ store.provider # name
            THEN [auth |-> auth, err |-> "API key is for another provider",
                  asked |-> Some(apiKey)]
          ELSE IF store.actualKey # apiKey
            THEN [auth |-> [scheme |-> "Bearer", cred |-> store.actualKey],
                  err |-> "", asked |-> Some(apiKey)]
          ELSE [auth |-> auth, err |-> "", asked |-> Some(apiKey)]

\* the API-key interceptor calls the Groq adapter's ValidateAPIKey
KeyValidate ==
  /\ kPhase = "start"
  /\ kPhase' = "done"
  /\ LET r == ValidateAPIKey("groq", kAuth, kStore)
     IN /\ kAuth' = r.auth
        /\ kErr' = r.err
        /\ kAsked' = r.asked
  /\ UNCHANGED <<kAuth0, kStore, kXKey0, kXKey>>

KeyInit ==
  /\ kAuth0 \in AuthHeaders
  /\ kAuth = kAuth0
  /\ kStore \in StoreResults
  /\ kPhase = "start"
  /\ kErr = ""
  /\ kAsked = Nil
  /\ kXKey0 \in {"", "iw:a"}
  /\ kXKey = kXKey0

\* no key is validated
KeyOff ==
  /\ kAuth0 = NoAuth
  /\ kAuth = NoAuth
  /\ kStore = [actualKey |-> "", provider |-> "", err |-> TRUE]
  /\ kPhase = "off"
  /\ kErr = ""
  /\ kAsked = Nil
  /\ kXKey0 = ""
  /\ kXKey = ""

\* ------------------------------------------------ Groq reverse proxy
\* One request through the httputil.ReverseProxy built by NewGroqProxy:
\* the director rewrites the outbound copy of the request, the transport
\* either fails or answers, and the proxy calls ErrorHandler or
\* ModifyResponse and copies the response to the client.
GroqPaths ==
  { <<"groq", "v1", "chat", "completions">>,
    <<"groq", "openai", "v1", "chat", "completions">>,
    <<"groq", "v1", "responses">>,
    <<"groq", "v1", "models">>,
    <<"groq", "openai">>,
    <<"groq", "">> }

\* header values v with strings.Contains(v, "text/event-stream")
EventStreamTypes == {"text/event-stream", "text/event-stream; charset=utf-8"}

UpstreamHeaders ==
  { ct \cup extra :
      ct \in { {}, {<<"Content-Type", "application/json">>},
               {<<"Content-Type", "text/event-stream">>},
               {<<"Content-Type", "text/event-stream; charset=utf-8">>} },
      extra \in SUBSET { <<"Content-Length", "42">>,
                         <<"Cache-Control", "max-age=60">>,
                         <<"X-Request-Id", "r1">> } }

\* what Transport.RoundTrip yields: an error, or a response
Upstreams ==
  { [err |-> TRUE, status |-> 0, hdr |-> {}] }
    \cup [err : {FALSE}, status : {200, 429}, hdr : UpstreamHeaders]

\* pieces of a response body
SSEErrorFrame == [format |-> "sse", data |-> "error: Proxy error"]
SSEDoneFrame == [format |-> "sse", data |-> "[DONE]"]
PlainError == [format |-> "text", data |-> "Groq proxy error"]
UpstreamBody == [format |-> "upstream", data |-> "body"]

VARIABLES
  gPath,     \* URL path of the inbound request
  gMethod,   \* its method
  gAccept,   \* its Accept header
  gBody,     \* TRUE when its JSON body carries "stream": true
  gUp,       \* what the transport will yield
  gOut,      \* URL path of the outbound request
  gPhase,    \* "start", "directed", "modified", "done"
  gResp,     \* header map of the upstream response in the proxy's hands
  gHdr,      \* header map of the client's ResponseWriter
  gStatus,   \* status sent to the client (0: none yet)
  gWireHdr,  \* headers sent to the client
  gWire,     \* body pieces sent to the client
  gLog       \* log lines of the error handler

proxyVars == <<gPath, gMethod, gAccept, gBody, gUp, gOut, gPhase, gResp,
               gHdr, gStatus, gWireHdr, gWire, gLog>>

HDel(h, k) == {p \in h : p[1] # k}

\* CreateGenericDirector: strips the "/<provider>" prefix of the path
GenericDirector(urlPath) == Tail(urlPath)

\* (mutant) "/openai" is prepended whatever the path begins with
GroqRewriteAlways(urlPath) == <<"openai">> \o urlPath

\* the Groq director's own step, after baseDirector(req)
GroqRewrite(urlPath) ==
  IF ~HasPrefixSeg(urlPath, "openai") THEN <<"openai">> \o urlPath ELSE urlPath

GroqDirector(urlPath) == GroqRewrite(GenericDirector(urlPath))

isStreamingResponse(header) == HGet(header, "Content-Type") \in EventStreamTypes

\* (mutant) the streaming headers are set on every response
ModifyResponseEvery(header) ==
  HDel(HSet(HSet(HSet(header, "Cache-Control", "no-cache"),
                 "Connection", "keep-alive"),
            "X-Accel-Buffering", "no"),
       "Content-Length")

ModifyResponse(header) ==
  IF isStreamingResponse(header)
    THEN HDel(HSet(HSet(HSet(header, "Cache-Control", "no-cache"),
                        "Connection", "keep-alive"),
                   "X-Accel-Buffering", "no"),
              "Content-Length")
    ELSE header

\* OpenAIProxy.checkStreamingInBody: the body's "stream" field
checkStreamingInBody(reqBody) == reqBody

\* strings.Contains(path, "/chat/completions"), "/completions", "/responses"
SegResponses == {"responses"}

\* (mutant) the method is not looked at
GroqIsStreamingRequestAnyMethod(accept, urlPath, method, reqBody) ==
  IF accept \in EventStreamTypes THEN TRUE
  ELSE IF ~HasPrefixSeg(urlPath, "groq") THEN FALSE
  ELSE IF \/ \E i \in 1..Len(urlPath) : urlPath[i] \in SegCompletions
          \/ \E i \in 1..Len(urlPath) : urlPath[i] \in SegResponses
    THEN checkStreamingInBody(reqBody)
  ELSE FALSE

GroqIsStreamingRequest(accept, urlPath, method, reqBody) ==
  IF accept \in EventStreamTypes THEN TRUE
  ELSE IF ~HasPrefixSeg(urlPath, "groq") THEN FALSE
  ELSE IF method = "POST"
          /\ \/ \E i \in 1..(Len(urlPath) - 1) :
                  urlPath[i] = "chat" /\ urlPath[i + 1] \in SegCompletions
             \/ \E i \in 1..Len(urlPath) : urlPath[i] \in SegCompletions
             \/ \E i \in 1..Len(urlPath) : urlPath[i] \in SegResponses
    THEN checkStreamingInBody(reqBody)
  ELSE FALSE

\* http.ResponseWriter.WriteHeader: the first call sends status and headers
GWriteHeader(w, code) ==
  IF w.status # 0 THEN w
  ELSE [w EXCEPT !.status = code, !.wireHdr = w.hdr]

\* fmt.Fprintf(w, ...): sends the headers with 200 when none were sent
GFprintf(w, piece) ==
  LET w1 == GWriteHeader(w, 200)
  IN [w1 EXCEPT !.wire = Append(w1.wire, piece)]

\* proxy.ErrorHandler(w, r, err), r being the outbound request
ErrorHandler(w, accept, urlPath, method, reqBody) ==
  LET w0 == [w EXCEPT !.log = Append(w.log, "Groq proxy error")]
  IN IF GroqIsStreamingRequest(accept, urlPath, method, reqBody)
       THEN IF HGet(w0.hdr, "Content-Type") = ""
              THEN LET w1 == [w0 EXCEPT !.hdr =
                                HSet(HSet(w0.hdr, "Content-Type", "text/event-stream"),
                                     "Cache-Control", "no-cache")]
                       w2 == GWriteHeader(w1, 502)
                       w3 == GFprintf(w2, SSEErrorFrame)
                   IN GFprintf(w3, SSEDoneFrame)
              ELSE [w0 EXCEPT !.log =
                      Append(w0.log, "Cannot send error response, headers already sent")]
       ELSE GFprintf(GWriteHeader(w0, 502), PlainError)

GWriter == [hdr |-> gHdr, status |-> gStatus, wireHdr |-> gWireHdr,
            wire |-> gWire, log |-> gLog]

\* ReverseProxy.ServeHTTP: p.Director(outreq)
ProxyDirector ==
  /\ gPhase = "start"
  /\ gOut' = GroqDirector(gOut)
  /\ gPhase' = "directed"
  /\ UNCHANGED <<gPath, gMethod, gAccept, gBody, gUp, gResp, gHdr, gStatus,
                 gWireHdr, gWire, gLog>>

\* ReverseProxy.ServeHTTP: RoundTrip failed, ErrorHandler(rw, outreq, err)
ProxyRoundTripError ==
  /\ gPhase = "directed"
  /\ gUp.err
  /\ LET w == ErrorHandler(GWriter, gAccept, gOut, gMethod, gBody)
     IN /\ gHdr' = w.hdr
        /\ gStatus' = w.status
        /\ gWireHdr' = w.wireHdr
        /\ gWire' = w.wire
        /\ gLog' = w.log
  /\ gPhase' = "done"
  /\ UNCHANGED <<gPath, gMethod, gAccept, gBody, gUp, gOut, gResp>>

\* ReverseProxy.ServeHTTP: RoundTrip answered, ModifyResponse(res)
ProxyModifyResponse ==
  /\ gPhase = "directed"
  /\ ~gUp.err
  /\ gResp' = ModifyResponse(gUp.hdr)
  /\ gPhase' = "modified"
  /\ UNCHANGED <<gPath, gMethod, gAccept, gBody, gUp, gOut, gHdr, gStatus,
                 gWireHdr, gWire, gLog>>

\* ReverseProxy.ServeHTTP: copyHeader, WriteHeader(res.StatusCode), copy body
ProxyCopyResponse ==
  /\ gPhase = "modified"
  /\ LET w1 == [GWriter EXCEPT !.hdr = gHdr \cup gResp]
         w == GFprintf(GWriteHeader(w1, gUp.status), UpstreamBody)
     IN /\ gHdr' = w.hdr
        /\ gStatus' = w.status
        /\ gWireHdr' = w.wireHdr
        /\ gWire' = w.wire
        /\ gLog' = w.log
  /\ gPhase' = "done"
  /\ UNCHANGED <<gPath, gMethod, gAccept, gBody, gUp, gOut, gResp>>

ProxyInit ==
  /\ gPath \in GroqPaths
  /\ gMethod \in {"GET", "POST"}
  /\ gAccept \in {"", "application/json", "text/event-stream"}
  /\ gBody \in BOOLEAN
  /\ gUp \in Upstreams
  /\ gOut = gPath
  /\ gPhase = "start"
  /\ gResp = {}
  /\ gHdr = {}
  /\ gStatus = 0
  /\ gWireHdr = {}
  /\ gWire = <<>>
  /\ gLog = <<>>

ProxyOff ==
  /\ gPath = <<>>
  /\ gMethod = ""
  /\ gAccept = ""
  /\ gBody = FALSE
  /\ gUp = [err |-> TRUE, status |-> 0, hdr |-> {}]
  /\ gOut = <<>>
  /\ gPhase = "off"
  /\ gResp = {}
  /\ gHdr = {}
  /\ gStatus = 0
  /\ gWireHdr = {}
  /\ gWire = <<>>
  /\ gLog = <<>>

\* ------------------------------------------- ExtractUserIDFromRequest
\* User ids are sequences of characters; the empty string is <<>>.
NoStr == <<>>
Bob == <<"b", "o", "b">>
TokenPfx == <<"t", "o", "k", "e", "n", ":">>
IPPfx == <<"i", "p", ":">>

\* the characters of a path segment
Chars(seg) == IF seg = "bob" THEN Bob ELSE NoStr

IdentPaths ==
  { <<"test">>,
    <<"openai", "v1", "chat", "completions">>,
    <<"meta">>,
    <<"meta", "bob", "openai", "v1", "chat", "completions">>,
    <<"meta", "", "openai", "v1", "chat", "completions">> }

\* bearer tokens of 0, 3, 8, 9 and 12 characters
Tokens ==
  { NoStr,
    <<"a", "b", "c">>,
    <<"a", "b", "c", "1", "2", "3", "4", "5">>,
    <<"a", "b", "c", "1", "2", "3", "4", "5", "t">>,
    <<"a", "b", "c", "1", "2", "3", "4", "5", "t", "o", "k", "e">> }

\* Authorization values: empty, another scheme, "Bearer " + token
IdentAuths ==
  { [scheme |-> "", cred |-> NoStr], [scheme |-> "Basic", cred |-> <<"x", "y">>] }
    \cup [scheme : {"Bearer"}, cred : Tokens]


VARIABLES
  iCtx,      \* user id on the request context ("" when there is none)
  iPath,     \* URL path
  iHeader,   \* X-User-ID
  iProvider, \* TRUE when a provider is passed
  iBodyUser, \* what provider.UserIDFromRequest returns
  iQuery,    \* llm_user_id
  iAuth,     \* Authorization
  iXFF,      \* X-Forwarded-For
  iRealIP,   \* X-Real-IP
  iRemote,   \* req.RemoteAddr
  iPhase,    \* "start", "done"
  iResult    \* the user id returned

identVars == <<iCtx, iPath, iHeader, iProvider, iBodyUser, iQuery, iAuth,
               iXFF, iRealIP, iRemote, iPhase, iResult>>

ExtractIPAddressFromRequest(xff, realIP, remote) ==
  IF xff # NoStr THEN xff
  ELSE IF realIP # NoStr THEN realIP
  ELSE remote

\* strings.Split(path, "/")[2] of a path with the prefix "/meta/"
MetaUserSegment(urlPath) ==
  IF HasPrefixSeg(urlPath, "meta") THEN Chars(urlPath[2]) ELSE NoStr

\* (mutant) the query parameter is looked at before the X-User-ID header
ExtractUserIDQueryFirst(ctx, urlPath, header, hasProvider, bodyUser, query, auth, xff, realIP, remote) ==
  IF ctx # NoStr THEN ctx
  ELSE IF MetaUserSegment(urlPath) # NoStr THEN MetaUserSegment(urlPath)
  ELSE IF query # NoStr THEN query
  ELSE IF header # NoStr THEN header
  ELSE IF hasProvider /\ bodyUser # NoStr THEN bodyUser
  ELSE IF auth.scheme = "Bearer"
    THEN IF Len(auth.cred) > 8
           THEN TokenPfx \o SubSeq(auth.cred, 1, 8)
           ELSE TokenPfx \o auth.cred
  ELSE IPPfx \o ExtractIPAddressFromRequest(xff, realIP, remote)

\* (mutant) the whole token goes into the user id
ExtractUserIDWholeToken(ctx, urlPath, header, hasProvider, bodyUser, query, auth, xff, realIP, remote) ==
  IF ctx # NoStr THEN ctx
  ELSE IF MetaUserSegment(urlPath) # NoStr THEN MetaUserSegment(urlPath)
  ELSE IF header # NoStr THEN header
  ELSE IF hasProvider /\ bodyUser # NoStr THEN bodyUser
  ELSE IF query # NoStr THEN query
  ELSE IF auth.scheme = "Bearer" THEN TokenPfx \o auth.cred
  ELSE IPPfx \o ExtractIPAddressFromRequest(xff, realIP, remote)

ExtractUserIDFromRequest(ctx, urlPath, header, hasProvider, bodyUser, query, auth, xff, realIP, remote) ==
  IF ctx # NoStr THEN ctx
  ELSE IF MetaUserSegment(urlPath) # NoStr THEN MetaUserSegment(urlPath)
  ELSE IF header # NoStr THEN header
  ELSE IF hasProvider /\ bodyUser # NoStr THEN bodyUser
  ELSE IF query # NoStr THEN query
  ELSE IF auth.scheme = "Bearer"
    THEN IF Len(auth.cred) > 8
           THEN TokenPfx \o SubSeq(auth.cred, 1, 8)
           ELSE TokenPfx \o auth.cred
  ELSE IPPfx \o ExtractIPAddressFromRequest(xff, realIP, remote)

IdentExtract ==
  /\ iPhase = "start"
  /\ iResult' = ExtractUserIDFromRequest(iCtx, iPath, iHeader, iProvider,
                                         iBodyUser, iQuery, iAuth, iXFF,
                                         iRealIP, iRemote)
  /\ iPhase' = "done"
  /\ UNCHANGED <<iCtx, iPath, iHeader, iProvider, iBodyUser, iQuery, iAuth,
                 iXFF, iRealIP, iRemote>>

IdentInit ==
  /\ iCtx \in {NoStr, <<"c", "a">>}
  /\ iPath \in IdentPaths
  /\ iHeader \in {NoStr, <<"a", "l">>}
  /\ iProvider \in BOOLEAN
  /\ iBodyUser \in {NoStr, <<"d">>}
  /\ iQuery \in {NoStr, <<"e", "r">>}
  /\ iAuth \in IdentAuths
  /\ iXFF \in {NoStr, <<"1", ".", "1">>}
  /\ iRealIP \in {NoStr, <<"2", ".", "2">>}
  /\ iRemote = <<"3", ".", "3", ":", "8">>
  /\ iPhase = "start"
  /\ iResult = NoStr

IdentOff ==
  /\ iCtx = NoStr
  /\ iPath = <<>>
  /\ iHeader = NoStr
  /\ iProvider = FALSE
  /\ iBodyUser = NoStr
  /\ iQuery = NoStr
  /\ iAuth = [scheme |-> "", cred |-> NoStr]
  /\ iXFF = NoStr
  /\ iRealIP = NoStr
  /\ iRemote = NoStr
  /\ iPhase = "off"
  /\ iResult = NoStr

\* ------------------------- responseCapture.Write, parser and writer given
\* One capture and the Writes made on it, with the two things Write calls
\* as inputs of each call: what rc.provider.ParseResponseMetadata returns
\* and what the downstream rc.ResponseWriter.Write returns.
MaxWrites == 3

WriteChunks == { <<>>, <<"a">>, <<"b", "c">> }

\* (metadata, err) of rc.provider.ParseResponseMetadata(bodyReader, true)
ParseOutcomes ==
  { [md |-> Some("m1"), err |-> FALSE],
    [md |-> Some("m2"), err |-> FALSE],
    [md |-> Nil, err |-> TRUE],
    [md |-> Nil, err |-> FALSE],
    [md |-> Some("m1"), err |-> TRUE] }

\* (n, err) of rc.ResponseWriter.Write(b): all of b, or fewer bytes and an error
DownstreamOutcomes(b) ==
  { [n |-> Len(b), err |-> FALSE], [n |-> 0, err |-> TRUE] }
    \cup (IF Len(b) >= 2 THEN { [n |-> Len(b) - 1, err |-> TRUE] } ELSE {})

VARIABLES
  wStreaming,  \* rc.isStreaming
  wProvider,   \* TRUE when rc.provider is not nil
  wBody,       \* rc.body
  wLastMd,     \* rc.lastMetadata
  wLastPos,    \* rc.lastParsedPos
  wChunks,     \* the chunks passed to Write so far, in order
  wWire,       \* the bytes the downstream writer took
  wParses,     \* the parser invocations of the latest Write: [buf, md, err]
  wRet,        \* what the latest Write returned: [n, err]
  wDown        \* what the downstream writer returned to the latest Write

writeVars == <<wStreaming, wProvider, wBody, wLastMd, wLastPos, wChunks,
               wWire, wParses, wRet, wDown>>

\* (mutant) a parse without metadata clears the retained metadata
RCWriteResetOnFailure(rc, b, parse, down) ==
  LET allData == rc.body \o b
      parses == rc.isStreaming /\ rc.hasProvider /\ Len(allData) > rc.lastParsedPos
  IN [body |-> allData,
      isStreaming |-> rc.isStreaming,
      hasProvider |-> rc.hasProvider,
      lastMetadata |-> IF parses THEN (IF ~parse.err THEN parse.md ELSE Nil)
                       ELSE rc.lastMetadata,
      lastParsedPos |-> IF parses THEN Len(allData) ELSE rc.lastParsedPos,
      parses |-> IF parses
                   THEN <<[buf |-> allData, md |-> parse.md, err |-> parse.err]>>
                   ELSE <<>>,
      ret |-> down]

\* (mutant) only the bytes after lastParsedPos are handed to the parser
RCWriteParseNewData(rc, b, parse, down) ==
  LET allData == rc.body \o b
      parses == rc.isStreaming /\ rc.hasProvider /\ Len(allData) > rc.lastParsedPos
  IN [body |-> allData,
      isStreaming |-> rc.isStreaming,
      hasProvider |-> rc.hasProvider,
      lastMetadata |-> IF parses /\ ~parse.err /\ parse.md # Nil
                         THEN parse.md ELSE rc.lastMetadata,
      lastParsedPos |-> IF parses THEN Len(allData) ELSE rc.lastParsedPos,
      parses |-> IF parses
                   THEN <<[buf |-> SubSeq(allData, rc.lastParsedPos + 1, Len(allData)),
                           md |-> parse.md, err |-> parse.err]>>
                   ELSE <<>>,
      ret |-> down]

\* (mutant) a chunk is buffered only when the downstream writer took it all
RCWriteBufferOnSuccess(rc, b, parse, down) ==
  LET allData == IF down.err THEN rc.body ELSE rc.body \o b
      parses == rc.isStreaming /\ rc.hasProvider /\ Len(allData) > rc.lastParsedPos
  IN [body |-> allData,
      isStreaming |-> rc.isStreaming,
      hasProvider |-> rc.hasProvider,
      lastMetadata |-> IF parses /\ ~parse.err /\ parse.md # Nil
                         THEN parse.md ELSE rc.lastMetadata,
      lastParsedPos |-> IF parses THEN Len(allData) ELSE rc.lastParsedPos,
      parses |-> IF parses
                   THEN <<[buf |-> allData, md |-> parse.md, err |-> parse.err]>>
                   ELSE <<>>,
      ret |-> down]

\* responseCapture.Write(b): the capture afterwards, the parser invocations
\* made and the value returned
RCWrite(rc, b, parse, down) ==
  LET allData == rc.body \o b
      parses == rc.isStreaming /\ rc.hasProvider /\ Len(allData) > rc.lastParsedPos
  IN [body |-> allData,
      isStreaming |-> rc.isStreaming,
      hasProvider |-> rc.hasProvider,
      lastMetadata |-> IF parses /\ ~parse.err /\ parse.md # Nil
                         THEN parse.md ELSE rc.lastMetadata,
      lastParsedPos |-> IF parses THEN Len(allData) ELSE rc.lastParsedPos,
      parses |-> IF parses
                   THEN <<[buf |-> allData, md |-> parse.md, err |-> parse.err]>>
                   ELSE <<>>,
      ret |-> down]

\* the inner handler calls Write(b) on the capture
WriteCall ==
  /\ Len(wChunks) < MaxWrites
  /\ \E b \in WriteChunks, parse \in ParseOutcomes :
       \E down \in DownstreamOutcomes(b) :
         LET rc0 == [body |-> wBody, isStreaming |-> wStreaming,
                     hasProvider |-> wProvider, lastMetadata |-> wLastMd,
                     lastParsedPos |-> wLastPos]
             rc1 == RCWrite(rc0, b, parse, down)
         IN /\ wBody' = rc1.body
            /\ wLastMd' = rc1.lastMetadata
            /\ wLastPos' = rc1.lastParsedPos
            /\ wParses' = rc1.parses
            /\ wRet' = rc1.ret
            /\ wDown' = down
            /\ wChunks' = Append(wChunks, b)
            /\ wWire' = wWire \o SubSeq(b, 1, down.n)
  /\ UNCHANGED <<wStreaming, wProvider>>

\* captureWriter := &responseCapture{...} (token_parsing.go:65-72)
WriteInit ==
  /\ wStreaming \in BOOLEAN
  /\ wProvider \in BOOLEAN
  /\ wBody = <<>>
  /\ wLastMd = Nil
  /\ wLastPos = 0
  /\ wChunks = <<>>
  /\ wWire = <<>>
  /\ wParses = <<>>
  /\ wRet = [n |-> 0, err |-> FALSE]
  /\ wDown = [n |-> 0, err |-> FALSE]

WriteOff ==
  /\ wStreaming = FALSE
  /\ wProvider = FALSE
  /\ wBody = <<>>
  /\ wLastMd = Nil
  /\ wLastPos = 0
  /\ wChunks = <<>>
  /\ wWire = <<>>
  /\ wParses = <<>>
  /\ wRet = [n |-> 0, err |-> FALSE]
  /\ wDown = [n |-> 0, err |-> FALSE]

\* ---------------------------------------------------- runServer: shutdown
\* The requests in flight while runServer waits for the signal, shuts the
\* HTTP server down and stops the cost tracker (main.go:627-655).
ShutdownReqs == {1, 2}

\* metadata.TotalTokens of the response of a request
ShutdownTotals == {0, 12}

VARIABLES
  sMain,     \* "serving", "shutdown", "returned", "stopped", "exited"
  sHandler,  \* per request: "none", "running", "finished", "killed"
  sTotal,    \* per request: TotalTokens of its metadata
  sErr,      \* TRUE: server.Shutdown returned the context's error
  sStopped,  \* TRUE: globalCostTracker.StopAsyncWorkers has been called
  sTracked   \* the TrackRequest calls: [req, afterStop, afterShutdown]

shutVars == <<sMain, sHandler, sTotal, sErr, sStopped, sTracked>>

\* the server accepts a request and starts its handler
SdAccept(i) ==
  /\ sMain = "serving"
  /\ sHandler[i] = "none"
  /\ sHandler' = [sHandler EXCEPT ![i] = "running"]
  /\ UNCHANGED <<sMain, sTotal, sErr, sStopped, sTracked>>

\* costTrackingCallback (main.go:542-552)
CostTrackingCallback(log, i, total, stopped, main) ==
  IF total > 0
    THEN Append(log, [req |-> i, afterStop |-> stopped,
                      afterShutdown |-> main \in {"returned", "stopped"}])
    ELSE log

\* a handler's response ends and TokenParsingMiddleware runs the callback
SdFinish(i) ==
  /\ sMain # "exited"
  /\ sHandler[i] = "running"
  /\ sHandler' = [sHandler EXCEPT ![i] = "finished"]
  /\ sTracked' = CostTrackingCallback(sTracked, i, sTotal[i], sStopped, sMain)
  /\ UNCHANGED <<sMain, sTotal, sErr, sStopped>>

\* sig := <-sigChan; server.Shutdown(ctx) closes the listeners
SdSignal ==
  /\ sMain = "serving"
  /\ sMain' = "shutdown"
  /\ UNCHANGED <<sHandler, sTotal, sErr, sStopped, sTracked>>

\* server.Shutdown returns nil: no handler is running any more
SdShutdownDrained ==
  /\ sMain = "shutdown"
  /\ \A i \in ShutdownReqs : sHandler[i] # "running"
  /\ sMain' = "returned"
  /\ sErr' = FALSE
  /\ UNCHANGED <<sHandler, sTotal, sStopped, sTracked>>

\* server.Shutdown returns ctx.Err(): the 30 seconds are over and a handler
\* is still running; Shutdown does not interrupt it
SdShutdownTimeout ==
  /\ sMain = "shutdown"
  /\ \E i \in ShutdownReqs : sHandler[i] = "running"
  /\ sMain' = "returned"
  /\ sErr' = TRUE
  /\ UNCHANGED <<sHandler, sTotal, sStopped, sTracked>>

\* globalCostTracker.StopAsyncWorkers() (main.go:648-652)
SdStopAsyncWorkers ==
  /\ sMain = "returned"
  /\ sMain' = "stopped"
  /\ sStopped' = TRUE
  /\ UNCHANGED <<sHandler, sTotal, sErr, sTracked>>

\* runServer and main return: the process ends with the handlers left
SdExit ==
  /\ sMain = "stopped"
  /\ sMain' = "exited"
  /\ sHandler' = [i \in ShutdownReqs |->
                    IF sHandler[i] = "running" THEN "killed" ELSE sHandler[i]]
  /\ UNCHANGED <<sTotal, sErr, sStopped, sTracked>>

ShutInit ==
  /\ sMain = "serving"
  /\ sHandler = [i \in ShutdownReqs |-> "none"]
  /\ sTotal \in [ShutdownReqs -> ShutdownTotals]
  /\ sErr = FALSE
  /\ sStopped = FALSE
  /\ sTracked = <<>>

ShutOff ==
  /\ sMain = "off"
  /\ sHandler = [i \in ShutdownReqs |-> "none"]
  /\ sTotal = [i \in ShutdownReqs |-> 0]
  /\ sErr = FALSE
  /\ sStopped = FALSE
  /\ sTracked = <<>>

\* ------------------------------------------------------- specifications
vars == <<capVars, chainVars, limVars, keyVars, proxyVars, identVars, writeVars, shutVars>>

\* one request through TokenParsingMiddleware
Init == CapInit /\ ChainOff /\ LimOff /\ KeyOff /\ ProxyOff /\ IdentOff /\ WriteOff /\ ShutOff

Next ==
  \/ Write /\ UNCHANGED <<chainVars, limVars, keyVars, proxyVars, identVars, writeVars, shutVars>>
  \/ WriteHeader /\ UNCHANGED <<chainVars, limVars, keyVars, proxyVars, identVars, writeVars, shutVars>>
  \/ ServeReturn /\ UNCHANGED <<chainVars, limVars, keyVars, proxyVars, identVars, writeVars, shutVars>>
  \/ Abort /\ UNCHANGED <<chainVars, limVars, keyVars, proxyVars, identVars, writeVars, shutVars>>
  \/ FinishRequest /\ UNCHANGED <<chainVars, limVars, keyVars, proxyVars, identVars, writeVars, shutVars>>

Spec == Init /\ [][Next]_vars

\* server start-up and the requests' way through the chain
InitChain == ChainInit /\ CapOff /\ LimOff /\ KeyOff /\ ProxyOff /\ IdentOff /\ WriteOff /\ ShutOff

NextChain ==
  \/ InitializeRateLimiter /\ UNCHANGED <<capVars, limVars, keyVars, proxyVars, identVars, writeVars, shutVars>>
  \/ UseMiddlewares /\ UNCHANGED <<capVars, limVars, keyVars, proxyVars, identVars, writeVars, shutVars>>
  \/ Accept /\ UNCHANGED <<capVars, limVars, keyVars, proxyVars, identVars, writeVars, shutVars>>
  \/ Intercept /\ UNCHANGED <<capVars, limVars, keyVars, proxyVars, identVars, writeVars, shutVars>>
  \/ Handle /\ UNCHANGED <<capVars, limVars, keyVars, proxyVars, identVars, writeVars, shutVars>>
  \/ HandleAbort /\ UNCHANGED <<capVars, limVars, keyVars, proxyVars, identVars, writeVars, shutVars>>
  \/ Return /\ UNCHANGED <<capVars, limVars, keyVars, proxyVars, identVars, writeVars, shutVars>>
  \/ Complete /\ UNCHANGED <<capVars, limVars, keyVars, proxyVars, identVars, writeVars, shutVars>>

SpecChain == InitChain /\ [][NextChain]_vars

\* concurrent requests against the rate limiter
InitLimiter == LimInit /\ CapOff /\ ChainOff /\ KeyOff /\ ProxyOff /\ IdentOff /\ WriteOff /\ ShutOff

NextLimiter ==
  \/ (\E i \in 1..MaxReq : LimReserve(i)) /\ UNCHANGED <<capVars, chainVars, keyVars, proxyVars, identVars, writeVars, shutVars>>
  \/ (\E i \in 1..MaxReq : LimCommit(i)) /\ UNCHANGED <<capVars, chainVars, keyVars, proxyVars, identVars, writeVars, shutVars>>
  \/ (\E i \in 1..MaxReq : LimRelease(i)) /\ UNCHANGED <<capVars, chainVars, keyVars, proxyVars, identVars, writeVars, shutVars>>
  \/ LimTick /\ UNCHANGED <<capVars, chainVars, keyVars, proxyVars, identVars, writeVars, shutVars>>

SpecLimiter == InitLimiter /\ [][NextLimiter]_vars

\* one request through the Groq adapter's key validation
InitKey == KeyInit /\ CapOff /\ ChainOff /\ LimOff /\ ProxyOff /\ IdentOff /\ WriteOff /\ ShutOff

NextKey ==
  \/ KeyValidate /\ UNCHANGED <<capVars, chainVars, limVars, proxyVars, identVars, writeVars, shutVars>>

SpecKey == InitKey /\ [][NextKey]_vars

\* one request through the Groq reverse proxy
InitProxy == ProxyInit /\ CapOff /\ ChainOff /\ LimOff /\ KeyOff /\ IdentOff /\ WriteOff /\ ShutOff

NextProxy ==
  \/ ProxyDirector /\ UNCHANGED <<capVars, chainVars, limVars, keyVars, identVars, writeVars, shutVars>>
  \/ ProxyRoundTripError /\ UNCHANGED <<capVars, chainVars, limVars, keyVars, identVars, writeVars, shutVars>>
  \/ ProxyModifyResponse /\ UNCHANGED <<capVars, chainVars, limVars, keyVars, identVars, writeVars, shutVars>>
  \/ ProxyCopyResponse /\ UNCHANGED <<capVars, chainVars, limVars, keyVars, identVars, writeVars, shutVars>>

SpecProxy == InitProxy /\ [][NextProxy]_vars

\* one call of ExtractUserIDFromRequest
InitIdent == IdentInit /\ CapOff /\ ChainOff /\ LimOff /\ KeyOff /\ ProxyOff /\ WriteOff /\ ShutOff

NextIdent ==
  \/ IdentExtract /\ UNCHANGED <<capVars, chainVars, limVars, keyVars, proxyVars, writeVars, shutVars>>

SpecIdent == InitIdent /\ [][NextIdent]_vars

\* the Writes on one capture
InitWrite ==
  WriteInit /\ CapOff /\ ChainOff /\ LimOff /\ KeyOff /\ ProxyOff /\ IdentOff
    /\ ShutOff

NextWrite ==
  \/ WriteCall /\ UNCHANGED <<capVars, chainVars, limVars, keyVars, proxyVars, identVars, shutVars>>

SpecWrite == InitWrite /\ [][NextWrite]_vars

\* requests in flight while runServer shuts down
InitShutdown ==
  ShutInit /\ CapOff /\ ChainOff /\ LimOff /\ KeyOff /\ ProxyOff /\ IdentOff
    /\ WriteOff

OtherThanShutdown ==
  <<capVars, chainVars, limVars, keyVars, proxyVars, identVars, writeVars>>

NextShutdown ==
  \/ (\E i \in ShutdownReqs : SdAccept(i)) /\ UNCHANGED OtherThanShutdown
  \/ (\E i \in ShutdownReqs : SdFinish(i)) /\ UNCHANGED OtherThanShutdown
  \/ SdSignal /\ UNCHANGED OtherThanShutdown
  \/ SdShutdownDrained /\ UNCHANGED OtherThanShutdown
  \/ SdShutdownTimeout /\ UNCHANGED OtherThanShutdown
  \/ SdStopAsyncWorkers /\ UNCHANGED OtherThanShutdown
  \/ SdExit /\ UNCHANGED OtherThanShutdown

SpecShutdown == InitShutdown /\ [][NextShutdown]_vars

\* ================================================================ claims
Returned == pc \in {"returned", "done"}

\* a tracked request: its path resolves to a registered provider and names
\* an API endpoint
Tracked == provider # Nil /\ IsAPIEndpoint(path)

\* the parser invocations made by Write, and those among them that succeeded
WriteParses == {k \in DOMAIN parseLog : parseLog[k].at = "write"}
EndParses == {k \in DOMAIN parseLog : parseLog[k].at = "end"}
OkWriteParses == {k \in WriteParses : ~parseLog[k].err /\ parseLog[k].md # Nil}

CallsOf(i) == {k \in DOMAIN cbLog : cbLog[k].cb = i}

\* the status line is the inner handler's: its own code, or the implicit 200
StatusPassedThrough ==
  committed => wireStatus = (IF handlerStatus = 0 THEN 200 ELSE handlerStatus)

\* C1: whatever the request and the parser do, the bytes handed to the
\* downstream writer are exactly the bytes the inner handler has written so
\* far, in order.
C1_ByteForByte == wire = SubSeq(transcript, 1, pos)

\* C1 witness: a streaming response written in several chunks whose every
\* parse failed, and which reached the client whole.
C1_Witness ==
  /\ pc = "done" /\ isStreaming /\ provider # Nil
  /\ Len(transcript) >= 4 /\ pos = Len(transcript)
  /\ Cardinality(WriteParses) >= 3 /\ OkWriteParses = {}
  /\ wire = transcript

\* C2: every registered callback is invoked at most once per request, and
\* TrackRequest is called at most once.
C2_AtMostOneRecord ==
  /\ \A i \in 1..Len(callbacks) : Cardinality(CallsOf(i)) <= 1
  /\ Len(trackLog) <= 1

\* C2 witness: a finished stream with several successful incremental parses,
\* two callbacks and one tracked record.
C2_Witness ==
  /\ pc = "done" /\ Cardinality(OkWriteParses) >= 2
  /\ Len(callbacks) = 2 /\ Len(cbLog) = 2 /\ Len(trackLog) = 1

\* C3: TrackRequest only ever receives metadata with TotalTokens > 0; a
\* response that delivered no metadata, or metadata with TotalTokens = 0,
\* leaves the cost tracker untouched.
C3_OnlyPositiveTotals ==
  /\ \A k \in DOMAIN trackLog : trackLog[k].TotalTokens > 0
  /\ (delivered = Nil \/ delivered[1].TotalTokens = 0) => trackLog = <<>>

\* C3 witness: a stream that ended before any usage frame: the cost
\* callback was invoked with TotalTokens = 0 and tracked nothing.
C3_Witness ==
  /\ pc = "done" /\ isStreaming
  /\ delivered # Nil /\ delivered[1].TotalTokens = 0
  /\ \E k \in DOMAIN cbLog : cbLog[k].kind = "cost"
  /\ trackLog = <<>>

\* C4 (as claimed): however the inner handler of a streaming request stops,
\* return or abort, once usage has been parsed every callback has been
\* invoked with the last parsed metadata.
C4_BestKnownDelivered ==
  (/\ pc \in {"done", "aborted"} /\ isStreaming
   /\ Tracked /\ lastMetadata # Nil)
  => \A i \in 1..Len(callbacks) :
       callbacks[i] # "nil" =>
         \E k \in DOMAIN cbLog : cbLog[k].cb = i /\ cbLog[k].md = lastMetadata[1]

\* C5 (as claimed): when the response parsed to metadata, the header the
\* client received carries the usage headers with the parsed values.
C5_HeadersReachClient ==
  (pc = "done" /\ delivered # Nil)
  => SetUsageHeaders({}, delivered[1]) \subseteq wireHdr

\* componentwise prefix: every field of a is unset or has b's value
PrefixOf(a, b) ==
  /\ a.Provider = b.Provider /\ a.IsStreaming = b.IsStreaming
  /\ a.Model \in {"", b.Model} /\ a.RequestID \in {"", b.RequestID}
  /\ a.FinishReason \in {"", b.FinishReason}
  /\ a.InputTokens \in {0, b.InputTokens} /\ a.OutputTokens \in {0, b.OutputTokens}
  /\ a.TotalTokens \in {0, b.TotalTokens} /\ a.ThoughtTokens \in {0, b.ThoughtTokens}

\* C6: for a tracked streaming request of a production adapter, whatever the
\* split into writes, a transcript written whole delivers exactly the
\* metadata of one parse of the transcript, and the metadata retained after
\* any write is a componentwise prefix of it.
C6_StreamingIdempotence ==
  (isStreaming /\ Tracked /\ provider[1].kind = "real")
  => LET final == ParseResponseMetadata(provider[1], transcript, TRUE) IN
       /\ (Returned /\ pos = Len(transcript))
            => delivered = (IF final.err THEN Nil ELSE final.md)
       /\ lastMetadata # Nil
            => (final.md # Nil /\ PrefixOf(lastMetadata[1], final.md[1]))

\* C6 witness: the eight-byte transcript, written in at least three chunks
\* the first of which ended inside a frame, delivered usage and finish reason.
C6_Witness ==
  /\ pc = "done" /\ isStreaming /\ Tracked /\ provider[1].kind = "real"
  /\ pos = Len(transcript) /\ Len(transcript) = 8
  /\ Cardinality(WriteParses) >= 3 /\ parseLog[1].err
  /\ delivered # Nil /\ delivered[1].TotalTokens = 12
  /\ delivered[1].FinishReason = "stop"

Max(S) == CHOOSE x \in S : \A y \in S : y <= x

\* one parse, made at the end of the response, of the whole captured buffer
OneEndParse(streaming) ==
  /\ Cardinality(EndParses) = 1
  /\ \A k \in EndParses :
       /\ parseLog[k].len = Len(body) /\ Len(body) = pos
       /\ parseLog[k].streaming = streaming
       /\ parseLog[k].md = delivered

NoXHeader(h) == \A k \in XHeaders : ~HHas(h, k)

ParseFailed == parseLog # <<>> /\ \A k \in DOMAIN parseLog : parseLog[k].err

\* C8: when the parse of a tracked response fails (every parser invocation
\* of the request returned an error), the client gets the inner handler's
\* status and body, no callback is invoked and no X-LLM-* header is set.
C8_ParseFailureOpaque ==
  (Returned /\ Tracked /\ ParseFailed)
  => /\ cbLog = <<>> /\ trackLog = <<>> /\ delivered = Nil
     /\ NoXHeader(hdr) /\ NoXHeader(wireHdr)
     /\ wire = SubSeq(transcript, 1, pos)
     /\ StatusPassedThrough

\* C8 witness: a finished streaming response with two callbacks whose
\* incremental parses all failed, answered with the handler's own 500.
C8_Witness ==
  /\ pc = "done" /\ Tracked /\ ParseFailed /\ isStreaming
  /\ Cardinality(WriteParses) >= 2 /\ Len(callbacks) = 2
  /\ pos = Len(transcript) /\ wireStatus = 500

\* C9: a request whose path resolves to no registered provider, or names no
\* API endpoint, gets no callback, no end-of-response parse and no X-LLM-*
\* header; its status and body are the inner handler's.
C9_OffRouteUntouched ==
  (provider = Nil \/ ~IsAPIEndpoint(path))
  => /\ cbLog = <<>> /\ trackLog = <<>> /\ delivered = Nil /\ EndParses = {}
     /\ NoXHeader(hdr) /\ NoXHeader(wireHdr)
     /\ wire = SubSeq(transcript, 1, pos)
     /\ StatusPassedThrough

\* C9 witness: a finished response on a provider path that is no API
\* endpoint, with two callbacks and a parser that would have succeeded.
C9_Witness ==
  /\ pc = "done" /\ provider # Nil /\ ~IsAPIEndpoint(path)
  /\ provider[1].kind = "mockOk" /\ Len(callbacks) = 2
  /\ pos = Len(transcript) /\ Len(transcript) >= 1

FixedOrder ==
  <<"meta", "apikey", "logging", "ratelimit", "cors", "tokenparsing", "streaming">>

Configured(name) ==
  /\ name = "apikey" => cfg.keyStore
  /\ name = "ratelimit" => globalRateLimiter

\* interceptors that look up the request's identity or provider
LooksUp == {"apikey", "logging", "ratelimit", "tokenparsing"}

\* C10: the router's chain is the fixed order restricted to the configured
\* interceptors (an absent optional one leaves the others' order alone); a
\* request enters the interceptors in that order, none skipped, and the
\* meta-URL rewrite is entered before every interceptor that looks up
\* identity or provider.
C10_InterceptorOrder ==
  boot = "listening"
  => /\ middlewares = SelectSeq(FixedOrder, Configured)
     /\ Len(visited) <= Len(middlewares)
     /\ \A i \in 1..Len(visited) : visited[i].name = middlewares[i]
     /\ \A j \in 1..Len(visited) :
          visited[j].name \in LooksUp
            => \E i \in 1..(j - 1) : visited[i].name = "meta"

\* C10 witness: a meta-URL request that went through all seven interceptors.
C10_Witness ==
  /\ boot = "listening" /\ stage = Len(middlewares) + 2
  /\ Len(visited) = 7 /\ visited[1].path[1] = "meta"
  /\ visited[7].name = "streaming" /\ visited[7].user = "u1"

\* C11: whenever control has returned to the rate-limiting interceptor for a
\* request whose response parsed to metadata, what it finds in the response
\* header map under X-LLM-Input-Tokens is the parsed input token count: the
\* token-parsing interceptor, which it wraps, has set the header before.
C11_HeaderSetBeforeLimiterReturns ==
  (rlRead # Nil /\ chainMd # Nil)
  => rlRead[1] = Itoa(chainMd[1].InputTokens)

\* C11 witness: a streaming request answered by the route's handler whose
\* transcript parsed to usage; the limiter read "7" on return.
C11_Witness ==
  /\ rlRead # Nil /\ chainMd # Nil /\ reqStreaming
  /\ answeredBy = "handler" /\ rlRead[1] = "7"
  /\ chainMd[1].InputTokens = 7

RECURSIVE SumReserved(_, _)
\* the estimates of the requests up to i that hold a reservation on key k
SumReserved(k, i) ==
  IF i = 0 THEN 0
  ELSE SumReserved(k, i - 1)
         + (IF rlReq[i].st = "reserved" /\ k \in KeysOf(rlReq[i].user, rlReq[i].minute)
              THEN rlReq[i].est ELSE 0)

C14_FailOpen ==
  (boot = "listening" /\ cfg.rlEnabled /\ cfg.factoryErr)
  => /\ "Failed to initialize rate limiter" \in logged
     /\ ~globalRateLimiter
     /\ \A i \in 1..Len(middlewares) : middlewares[i] # "ratelimit"
     /\ \A i \in 1..Len(visited) : visited[i].name # "ratelimit"
     /\ answeredBy # "ratelimit"

\* C14 witness: with the limiter's construction failed, the server listens
\* and a request went through the whole chain to the route's handler and back.
C14_Witness ==
  /\ boot = "listening" /\ cfg.rlEnabled /\ cfg.factoryErr
  /\ answeredBy = "handler" /\ stage = Len(middlewares) + 2 /\ up = 0
  /\ Len(visited) = Len(middlewares)

\* the client presented a bearer key
BearerPresented == kAuth0.scheme = "Bearer"

\* C15: when the client presented a bearer key and the key store failed to
\* validate it, or bound it to a provider that is non-empty and not the
\* adapter's, ValidateAPIKey returns an error and the Authorization header
\* is as the client sent it.
C15_ValidationFails ==
  (/\ kPhase = "done" /\ BearerPresented
   /\ (kStore.err \/ kStore.provider \notin {"", "groq"}))
  => (kErr # "" /\ kAuth = kAuth0)

\* C15 witness: an opaque key that the store binds to openai and would
\* translate to another key was refused by the Groq adapter.
C15_Witness ==
  /\ kPhase = "done" /\ BearerPresented /\ kAuth0.cred = "iw:a"
  /\ ~kStore.err /\ kStore.provider = "openai" /\ kStore.actualKey = "sk-x"
  /\ kErr # ""

\* C16: when ValidateAPIKey succeeds for a presented bearer key, the
\* Authorization header is "Bearer <actual key>" if the store's actual key
\* differs from the presented one, and untouched if it is the same.
C16_KeyTranslated ==
  (kPhase = "done" /\ BearerPresented /\ kErr = "")
  => IF kStore.actualKey # kAuth0.cred
       THEN kAuth = [scheme |-> "Bearer", cred |-> kStore.actualKey]
       ELSE kAuth = kAuth0

\* C16 witness: the opaque key iw:a, bound to groq, was replaced by sk-x.
C16_Witness ==
  /\ kPhase = "done" /\ kErr = "" /\ kAuth0 = [scheme |-> "Bearer", cred |-> "iw:a"]
  /\ kStore.provider = "groq" /\ kStore.actualKey = "sk-x"
  /\ kAuth = [scheme |-> "Bearer", cred |-> "sk-x"]

\* ---------------------------------------------------- Groq reverse proxy
Directed == gPhase \in {"directed", "modified", "done"}

\* the rest of an inbound path "/groq/<rest>"
Rest == Tail(gPath)

\* C17: a request to /groq/<rest> is forwarded upstream with path
\* /openai/<rest>, unless <rest> itself begins with "openai/": then it is
\* forwarded with path /<rest>, nothing is prepended. In both cases the path
\* forwarded begins with /openai/ and the Groq rewrite leaves it as it is
\* (applying it twice gives the same path as applying it once).
C17_ForwardedUnderOpenAIOnce ==
  Directed =>
    /\ gOut = (IF Len(Rest) >= 2 /\ Rest[1] = "openai"
                 THEN Rest ELSE <<"openai">> \o Rest)
    /\ HasPrefixSeg(gOut, "openai")
    /\ GroqRewrite(gOut) = gOut

\* C17 (as claimed): every request to /groq/<rest> is forwarded upstream
\* with path /openai/<rest>, and the Groq rewrite leaves that path as it is.
C17_ForwardedUnderOpenAI ==
  Directed =>
    /\ gOut = <<"openai">> \o Rest
    /\ GroqRewrite(gOut) = gOut

\* a request to /groq/openai/<more> has been directed: nothing was prepended
C17_Witness ==
  /\ Directed
  /\ Len(Rest) >= 2
  /\ Rest[1] = "openai"
  /\ gOut = Rest

\* the header names the response modifier writes or deletes
StreamHeaderNames ==
  {"Cache-Control", "Connection", "X-Accel-Buffering", "Content-Length"}

UpstreamIsEventStream ==
  \E p \in gUp.hdr : p[1] = "Content-Type" /\ p[2] \in EventStreamTypes

\* C18: header preservation. Once the response modifier has run on an
\* upstream response whose Content-Type contains text/event-stream, the
\* response carries Cache-Control: no-cache, Connection: keep-alive and
\* X-Accel-Buffering: no, each once, carries no Content-Length, and has
\* every other upstream header as the upstream sent it and no further
\* header; on any other response it has exactly the upstream's headers.
C18_HeaderPreservation ==
  (gPhase \in {"modified", "done"} /\ ~gUp.err) =>
    IF UpstreamIsEventStream
      THEN /\ {p \in gResp : p[1] \in StreamHeaderNames}
                = { <<"Cache-Control", "no-cache">>,
                    <<"Connection", "keep-alive">>,
                    <<"X-Accel-Buffering", "no">> }
           /\ {p \in gResp : p[1] \notin StreamHeaderNames}
                = {p \in gUp.hdr : p[1] \notin StreamHeaderNames}
      ELSE gResp = gUp.hdr

\* the modifier has run on an event-stream response that came with a
\* Content-Length, a Cache-Control of its own and a further header
C18_Witness ==
  /\ gPhase = "modified"
  /\ UpstreamIsEventStream
  /\ <<"Content-Length", "42">> \in gUp.hdr
  /\ <<"Cache-Control", "max-age=60">> \in gUp.hdr
  /\ <<"X-Request-Id", "r1">> \in gUp.hdr
  /\ <<"X-Request-Id", "r1">> \in gResp
  /\ <<"Content-Length", "42">> \notin gResp

\* the inbound request is a streaming request (the adapter's own test, on
\* the request as the client sent it)
StreamingRequest == GroqIsStreamingRequest(gAccept, gPath, gMethod, gBody)

TransportFailed == gPhase = "done" /\ gUp.err

\* C19 (as claimed): on an upstream transport error for a streaming request
\* before any response header was emitted (the reverse proxy calls the
\* error handler only then), the client receives status 502 and exactly
\* one SSE error frame followed by the [DONE] frame, in that order.
C19_StreamErrorFrames ==
  (TransportFailed /\ StreamingRequest) =>
    /\ gStatus = 502
    /\ gWire = <<SSEErrorFrame, SSEDoneFrame>>

\* C20 (as claimed): every error response generated by the proxy itself,
\* the 502 on an upstream transport error for a non-streaming request
\* included, carries a JSON body with an error field.
C20_ErrorBodyIsJSON ==
  TransportFailed =>
    /\ gStatus = 502
    /\ Len(gWire) = 1
    /\ gWire[1].format = "json"
    /\ gWire[1].data = "error"

\* ------------------------------------------------------- user identity
RECURSIVE FirstNonEmpty(_)
FirstNonEmpty(values) ==
  IF values = <<>> THEN NoStr
  ELSE IF Head(values) # NoStr THEN Head(values)
  ELSE FirstNonEmpty(Tail(values))

\* the values of the sources of a user id, as the request carries them
BodySource == IF iProvider THEN iBodyUser ELSE NoStr

TokenSource ==
  IF iAuth.scheme = "Bearer"
    THEN TokenPfx \o (IF Len(iAuth.cred) > 8
                        THEN SubSeq(iAuth.cred, 1, 8) ELSE iAuth.cred)
    ELSE NoStr

IPSource == IPPfx \o (IF iXFF # NoStr THEN iXFF
                      ELSE IF iRealIP # NoStr THEN iRealIP ELSE iRemote)

PathSource ==
  IF Len(iPath) >= 2 /\ iPath[1] = "meta" /\ iPath[2] = "bob" THEN Bob ELSE NoStr

TokenFallback ==
  /\ iPhase = "done"
  /\ FirstNonEmpty(<<iCtx, PathSource, iHeader, BodySource, iQuery>>) = NoStr
  /\ iAuth.scheme = "Bearer"

\* C24: when identity falls back to the Authorization header, the user id
\* is "token:" followed by the first 8 characters of the bearer token when
\* the token is longer than 8 characters and by the whole token otherwise;
\* at most 8 characters of the credential appear in it.
C24_TokenPrefix ==
  TokenFallback =>
    /\ Len(iResult) <= Len(TokenPfx) + 8
    /\ Len(iResult) = Len(TokenPfx)
                        + (IF Len(iAuth.cred) > 8 THEN 8 ELSE Len(iAuth.cred))
    /\ \A k \in 1..Len(iResult) :
         iResult[k] = IF k <= Len(TokenPfx) THEN TokenPfx[k]
                      ELSE iAuth.cred[k - Len(TokenPfx)]

\* the fallback has happened with a token of more than 8 characters
C24_Witness ==
  /\ TokenFallback
  /\ Len(iAuth.cred) = 12
  /\ iResult = TokenPfx \o <<"a", "b", "c", "1", "2", "3", "4", "5">>

\* --------------------------------------------------- provider resolution
\* the provider name a path names: <p> of /meta/<u>/<p>/... when <p> is a
\* known name, else <p> of /<p>/... when <p> is a known name, else none
NamedProvider ==
  IF Len(path) >= 3 /\ path[1] = "meta" /\ path[3] \in ProviderNames
    THEN path[3]
  ELSE IF Len(path) >= 2 /\ path[1] \in ProviderNames THEN path[1]
  ELSE ""

\* C22: the provider of a request is the adapter registered under the name
\* its path names (/meta/<u>/<p>/... or /<p>/..., <p> one of openai,
\* anthropic, gemini, groq); a path that names no provider, and a path that
\* names a provider that is not registered, resolve to none.
C22_ProviderByPath ==
  IF NamedProvider = "" THEN provider = Nil
  ELSE IF reg[NamedProvider] = "none" THEN provider = Nil
  ELSE provider = Some([name |-> NamedProvider, kind |-> reg[NamedProvider]])

\* a request to /meta/<u>/openai/... whose provider's parser has been run
C22_Witness ==
  /\ Len(path) >= 3
  /\ path[1] = "meta"
  /\ path[3] = "openai"
  /\ provider # Nil
  /\ parseLog # <<>>

\* ------------------------------------------------- Groq streaming intent
\* the claimed streaming intent of a request with URL path p
IntentOf(p) ==
  \/ gAccept \in EventStreamTypes
  \/ /\ Len(p) >= 2
     /\ p[1] = "groq"
     /\ gMethod = "POST"
     /\ \E i \in 1..Len(p) : p[i] \in {"completions", "responses"}
     /\ gBody

\* C23: streaming intent for a Groq request is true exactly when the Accept
\* header contains text/event-stream, whatever the path and method, or the
\* path begins with /groq/, the method is POST, the path names a
\* completions or responses endpoint and the body carries stream:true.
\* Stated for the request as it came in and as the director left it.
C23_StreamingIntent ==
  /\ GroqIsStreamingRequest(gAccept, gPath, gMethod, gBody) <=> IntentOf(gPath)
  /\ GroqIsStreamingRequest(gAccept, gOut, gMethod, gBody) <=> IntentOf(gOut)
  /\ TransportFailed =>
       (gWire = <<SSEErrorFrame, SSEDoneFrame>> <=> IntentOf(gOut))

\* the error handler has found streaming intent by the Accept header alone,
\* on a GET whose path does not begin with /groq/
C23_Witness ==
  /\ TransportFailed
  /\ gAccept = "text/event-stream"
  /\ gMethod = "GET"
  /\ gOut[1] # "groq"
  /\ ~gBody
  /\ gWire = <<SSEErrorFrame, SSEDoneFrame>>

\* ------------------------------------------------ responseCapture.Write
\* the parser invocation of the latest Write, when it made one
Parsed == wParses # <<>>
ParseGaveMetadata == Parsed /\ ~wParses[1].err /\ wParses[1].md # Nil

\* C25: in a streaming capture the retained metadata changes only on a
\* successful parse, to the metadata that parse returned: a Write whose
\* parse returns an error or no metadata leaves it exactly as it was, and
\* once it is non-nil it is never nil again.
C25_RetainedMetadata ==
  [][ /\ wLastMd' # wLastMd =>
           /\ wParses' # <<>>
           /\ ~wParses'[1].err
           /\ wParses'[1].md # Nil
           /\ wLastMd' = wParses'[1].md
      /\ (wParses' # <<>> /\ (wParses'[1].err \/ wParses'[1].md = Nil)) =>
           wLastMd' = wLastMd
      /\ wLastMd # Nil => wLastMd' # Nil ]_vars

\* a Write whose parse failed after an earlier parse had given metadata:
\* that metadata is still retained
C25_Witness ==
  /\ wStreaming
  /\ Parsed
  /\ wParses[1].err
  /\ Len(wChunks) >= 2
  /\ wLastMd = Some("m2")

\* the concatenation of the chunks passed to Write
RECURSIVE Flatten(_)
Flatten(chunks) ==
  IF chunks = <<>> THEN <<>> ELSE Head(chunks) \o Flatten(Tail(chunks))

LatestChunk == wChunks[Len(wChunks)]

\* C26: after a Write on a streaming capture with a provider, the parser
\* has been invoked exactly once, on the whole cumulative buffer, when the
\* chunk was not empty, and not at all when it was empty, and lastParsedPos
\* equals the buffer length; after a Write on a non-streaming capture or on
\* one without a provider the parser has not been invoked and lastMetadata
\* and lastParsedPos have their initial values.
C26_ParserDiscipline ==
  wChunks # <<>> =>
    IF wStreaming /\ wProvider
      THEN /\ wLastPos = Len(wBody)
           /\ IF LatestChunk # <<>>
                THEN Len(wParses) = 1 /\ wParses[1].buf = Flatten(wChunks)
                ELSE wParses = <<>>
      ELSE /\ wParses = <<>>
           /\ wLastMd = Nil
           /\ wLastPos = 0

\* the third non-empty Write of a streaming capture with a provider has
\* handed the parser all three chunks
C26_Witness ==
  /\ wStreaming
  /\ wProvider
  /\ wChunks = << <<"a">>, <<"b", "c">>, <<"a">> >>
  /\ Len(wParses) = 1
  /\ wParses[1].buf = <<"a", "b", "c", "a">>
  /\ wLastPos = 4

\* C27: every Write appends its chunk to the capture buffer, whatever the
\* downstream writer does with it, and returns the downstream writer's own
\* byte count and error: the buffer is the concatenation of all chunks
\* passed to Write, the client has received no more than that, and a
\* failed or short downstream write leaves the client with less.
C27_BufferIsAllChunks ==
  /\ wBody = Flatten(wChunks)
  /\ wRet = wDown
  /\ Len(wWire) <= Len(wBody)
  /\ wWire = wBody <=> Len(wWire) = Len(wBody)
  /\ (wChunks # <<>> /\ wDown.n < Len(LatestChunk)) => Len(wWire) < Len(wBody)

\* a short downstream write: Write returned the writer's count and error,
\* and the metadata retained was parsed from bytes the client did not get
C27_Witness ==
  /\ wChunks # <<>>
  /\ LatestChunk = <<"b", "c">>
  /\ wRet = [n |-> 1, err |-> TRUE]
  /\ Len(wWire) < Len(wBody)
  /\ ParseGaveMetadata
  /\ wParses[1].buf = wBody
  /\ wLastMd = wParses[1].md

\* ------------------------------------------------ access log's verdict
\* the paths the access log and the token-parsing interceptor saw
SawAs(name) == {visited[k].path : k \in {j \in DOMAIN visited : visited[j].name = name}}

\* C28: for every request that reaches both interceptors and every set of
\* registered providers, the access log computes willBeTracked = TRUE
\* exactly when the token-parsing interceptor processes the response for
\* metadata (a provider is resolved and the path is an API endpoint), also
\* for a request that came in as /meta/<user>/<provider>/...
C28_VerdictsAgree ==
  \A pl \in SawAs("logging"), pt \in SawAs("tokenparsing"), r \in Registries :
    willBeTracked(r, pl)
      <=> (GetProviderFromRequest(r, pt) # Nil /\ IsAPIEndpoint(pt))

\* a request that came in as /meta/u1/openai/v1/chat/completions has passed
\* both interceptors, and both verdicts are TRUE
C28_Witness ==
  /\ visited # <<>>
  /\ visited[1].path = <<"meta", "u1", "openai", "v1", "chat", "completions">>
  /\ SawAs("logging") # {}
  /\ SawAs("tokenparsing") # {}
  /\ \A pl \in SawAs("logging") :
       willBeTracked([n \in ProviderNames |-> "real"], pl)
  /\ chainMd # Nil

\* ------------------------------------------------------------- shutdown
\* C29 (as claimed): the cost-tracking workers are stopped only after the
\* HTTP server's Shutdown has returned, and no request handler hands a
\* usage record to the cost tracker after StopAsyncWorkers has been called,
\* whatever the interleaving of the requests in flight with the shutdown,
\* also when the shutdown timeout expires with handlers still running.
C29_NoRecordAfterStop ==
  /\ sStopped => sMain \in {"stopped", "exited"}
  /\ \A k \in DOMAIN sTracked : ~sTracked[k].afterStop

\* ------------------------------------------------- key-store lookups
\* C30: Groq API-key validation consults the key store only for a request
\* whose Authorization header starts with "Bearer "; a request with no
\* Authorization header or with one in another scheme, also one that sends
\* a key in x-api-key only, is admitted without a key-store lookup and with
\* its Authorization and x-api-key headers as sent.
C30_LookupOnlyForBearer ==
  kPhase = "done" =>
    /\ kAsked # Nil => kAuth0.scheme = "Bearer"
    /\ kAuth0.scheme # "Bearer" =>
         /\ kAsked = Nil
         /\ kErr = ""
         /\ kAuth = kAuth0
    /\ kXKey = kXKey0

\* a request with a key in x-api-key only, against a key store that would
\* have failed, has been admitted without a lookup
C30_Witness ==
  /\ kPhase = "done"
  /\ kAuth0 = NoAuth
  /\ kXKey0 = "iw:a"
  /\ kStore.err
  /\ kAsked = Nil
  /\ kErr = ""
  /\ kXKey = "iw:a"

====
